---- MODULE Spec2Model ----
(***************************************************************************)
(* Model of things-mcp: the URL command builder, the execution and         *)
(* response-capture layer (src/src/url.ts) and the tool handlers           *)
(* (src/src/tools.ts, read tools).                                         *)
(*                                                                         *)
(* A JavaScript string is a sequence of symbols.  A symbol is either one   *)
(* character ("{", ":", " ") or an atomic run of characters that no        *)
(* operation of the program splits ("x-things-id", "null", "%20").         *)
(***************************************************************************)
EXTENDS Integers, Sequences, FiniteSets, TLC

\* ------------------------------------------------------------------ bounds
NumCalls == 2
\* data events read from one child process
MaxChunks == 1
MaxMembers == 2
MaxCut == 8

CallIds == 1..NumCalls

\* ------------------------------------------------------- string utilities
Quote == "\""
Whitespace == {" ", "\n"}
Digits == {"1", "2"}

Min(S) == CHOOSE x \in S : \A y \in S : x <= y

\* Array.prototype.join on an array of strings
RECURSIVE Join(_, _)
Join(ss, sep) ==
  IF ss = <<>> THEN <<>>
  ELSE IF Len(ss) = 1 THEN ss[1]
  ELSE ss[1] \o sep \o Join(Tail(ss), sep)

\* String.prototype.trim
RECURSIVE TrimStart(_)
TrimStart(s) ==
  IF s # <<>> /\ Head(s) \in Whitespace THEN TrimStart(Tail(s)) ELSE s

RECURSIVE TrimEnd(_)
TrimEnd(s) ==
  IF s # <<>> /\ s[Len(s)] \in Whitespace
  THEN TrimEnd(SubSeq(s, 1, Len(s) - 1)) ELSE s

Trim(s) == TrimEnd(TrimStart(s))

\* s.indexOf(pat): first position where pat occurs in s, 0 when none
IndexOf(s, pat) ==
  LET hits == {i \in 1..(Len(s) - Len(pat) + 1) :
                 SubSeq(s, i, i + Len(pat) - 1) = pat}
  IN IF hits = {} THEN 0 ELSE Min(hits)

Includes(s, pat) == IndexOf(s, pat) # 0

\* String.prototype.replace(pattern: string, replacement): first occurrence
ReplaceFirst(s, pat, rep) ==
  LET i == IndexOf(s, pat)
  IN IF i = 0 THEN s
     ELSE SubSeq(s, 1, i - 1) \o rep \o SubSeq(s, i + Len(pat), Len(s))

\* optional values: <<>> is undefined/null, <<v>> is the value v
Null == <<>>
Some(v) == <<v>>

\* ------------------------------------------------------------ JSON values
\* k is the type; s the text of a string, number or literal; a the elements
\* of an array or, for an object, its <<key, value>> properties in insertion
\* order (keys are distinct).
JStr(s) == [k |-> "string", s |-> s, a |-> <<>>]
JNum(s) == [k |-> "number", s |-> s, a |-> <<>>]
JBool(s) == [k |-> "boolean", s |-> s, a |-> <<>>]
JNull == [k |-> "null", s |-> <<>>, a |-> <<>>]
JArr(a) == [k |-> "array", s |-> <<>>, a |-> a]
JObj(ps) == [k |-> "object", s |-> <<>>, a |-> ps]

\* property access on a sequence of <<key, value>> properties
HasKey(ps, key) == \E i \in 1..Len(ps) : ps[i][1] = key
Get(ps, key) == ps[CHOOSE i \in 1..Len(ps) : ps[i][1] = key][2]
Keys(ps) == {ps[i][1] : i \in 1..Len(ps)}

\* obj[key] = v: an existing property keeps its place, a new one goes last
SetMember(ps, key, v) ==
  IF HasKey(ps, key)
  THEN [i \in 1..Len(ps) |-> IF ps[i][1] = key THEN <<key, v>> ELSE ps[i]]
  ELSE Append(ps, <<key, v>>)

ParseFail == [ok |-> FALSE, v |-> JNull, n |-> 0]
ParseOk(v, n) == [ok |-> TRUE, v |-> v, n |-> n]

RECURSIVE SkipWs(_, _)
SkipWs(s, i) ==
  IF i <= Len(s) /\ s[i] \in Whitespace THEN SkipWs(s, i + 1) ELSE i

\* the escape sequences of the alphabet, each one symbol
EscQuote == "\\\""
EscNewline == "\\n"

Unescape(c) ==
  IF c = EscQuote THEN Quote ELSE IF c = EscNewline THEN "\n" ELSE c

Escape(c) ==
  IF c = Quote THEN EscQuote ELSE IF c = "\n" THEN EscNewline ELSE c

\* a string literal starting at the quote s[i]; a raw line break inside a
\* literal is a syntax error
ParseStringLit(s, i) ==
  LET ends == {j \in (i + 1)..Len(s) : s[j] = Quote}
  IN IF ends = {} THEN ParseFail
     ELSE LET j == Min(ends)
              body == SubSeq(s, i + 1, j - 1)
          IN IF \E t \in 1..Len(body) : body[t] = "\n" THEN ParseFail
             ELSE ParseOk(JStr([t \in 1..Len(body) |-> Unescape(body[t])]),
                          j + 1)

RECURSIVE DigitsEnd(_, _)
DigitsEnd(s, i) ==
  IF i <= Len(s) /\ s[i] \in Digits THEN DigitsEnd(s, i + 1) ELSE i

RECURSIVE ParseValue(_, _)
RECURSIVE ParseMembers(_, _, _)
RECURSIVE ParseElements(_, _, _)

\* the members of an object, i at the first symbol of a key; a repeated key
\* keeps the last value
ParseMembers(s, i, ps) ==
  IF i > Len(s) \/ s[i] # Quote THEN ParseFail
  ELSE LET key == ParseStringLit(s, i)
       IN IF ~key.ok THEN ParseFail
          ELSE LET c == SkipWs(s, key.n)
               IN IF c > Len(s) \/ s[c] # ":" THEN ParseFail
                  ELSE LET val == ParseValue(s, c + 1)
                       IN IF ~val.ok THEN ParseFail
                          ELSE LET e == SkipWs(s, val.n)
                                   pp == SetMember(ps, key.v.s, val.v)
                               IN IF e > Len(s) THEN ParseFail
                                  ELSE IF s[e] = "}" THEN ParseOk(JObj(pp), e + 1)
                                  ELSE IF s[e] = ","
                                       THEN ParseMembers(s, SkipWs(s, e + 1), pp)
                                  ELSE ParseFail

ParseElements(s, i, a) ==
  LET val == ParseValue(s, i)
  IN IF ~val.ok THEN ParseFail
     ELSE LET e == SkipWs(s, val.n)
              aa == Append(a, val.v)
          IN IF e > Len(s) THEN ParseFail
             ELSE IF s[e] = "]" THEN ParseOk(JArr(aa), e + 1)
             ELSE IF s[e] = "," THEN ParseElements(s, e + 1, aa)
             ELSE ParseFail

ParseValue(s, i0) ==
  LET i == SkipWs(s, i0)
  IN IF i > Len(s) THEN ParseFail
     ELSE IF s[i] = "{"
          THEN LET j == SkipWs(s, i + 1)
               IN IF j <= Len(s) /\ s[j] = "}" THEN ParseOk(JObj(<<>>), j + 1)
                  ELSE ParseMembers(s, j, <<>>)
     ELSE IF s[i] = "["
          THEN LET j == SkipWs(s, i + 1)
               IN IF j <= Len(s) /\ s[j] = "]" THEN ParseOk(JArr(<<>>), j + 1)
                  ELSE ParseElements(s, j, <<>>)
     ELSE IF s[i] = Quote THEN ParseStringLit(s, i)
     ELSE IF s[i] \in Digits
          THEN LET j == DigitsEnd(s, i)
               IN ParseOk(JNum(SubSeq(s, i, j - 1)), j)
     ELSE IF s[i] = "null" THEN ParseOk(JNull, i + 1)
     ELSE IF s[i] \in {"true", "false"} THEN ParseOk(JBool(<<s[i]>>), i + 1)
     ELSE ParseFail

\* JSON.parse: one value, then only whitespace; ok = FALSE is a SyntaxError
JSONParse(s) ==
  LET r == ParseValue(s, 1)
  IN IF r.ok /\ SkipWs(s, r.n) > Len(s) THEN r ELSE ParseFail

\* String(value) on a parsed JSON value
RECURSIVE StringOf(_)
RECURSIVE JoinElements(_)
JoinElements(a) ==
  IF a = <<>> THEN <<>>
  ELSE LET h == IF a[1].k = "null" THEN <<>> ELSE StringOf(a[1])
       IN IF Len(a) = 1 THEN h ELSE h \o <<",">> \o JoinElements(Tail(a))

StringOf(v) ==
  CASE v.k \in {"string", "number", "boolean"} -> v.s
    [] v.k = "null" -> <<"null">>
    [] v.k = "array" -> JoinElements(v.a)
    [] OTHER -> <<"[object Object]">>

\* JSON.stringify
RECURSIVE JSONStringify(_)
RECURSIVE StringifyElements(_)
RECURSIVE StringifyMembers(_)
StringifyString(s) == <<Quote>> \o [i \in 1..Len(s) |-> Escape(s[i])] \o <<Quote>>

StringifyElements(a) ==
  IF a = <<>> THEN <<>>
  ELSE IF Len(a) = 1 THEN JSONStringify(a[1])
  ELSE JSONStringify(a[1]) \o <<",">> \o StringifyElements(Tail(a))

StringifyMembers(ps) ==
  IF ps = <<>> THEN <<>>
  ELSE LET h == StringifyString(ps[1][1]) \o <<":">> \o JSONStringify(ps[1][2])
       IN IF Len(ps) = 1 THEN h ELSE h \o <<",">> \o StringifyMembers(Tail(ps))

JSONStringify(v) ==
  CASE v.k = "string" -> StringifyString(v.s)
    [] v.k \in {"number", "boolean"} -> v.s
    [] v.k = "null" -> <<"null">>
    [] v.k = "array" -> <<"[">> \o StringifyElements(v.a) \o <<"]">>
    [] OTHER -> <<"{">> \o StringifyMembers(v.a) \o <<"}">>

\* ---------------------------------------------------------- url.ts, pure
\* encodeURIComponent, symbol by symbol
EncodeChar(c) ==
  CASE c = " " -> "%20"
    [] c = "\n" -> "%0A"
    [] c = "&" -> "%26"
    [] c = "," -> "%2C"
    [] c = ":" -> "%3A"
    [] c = "@" -> "%40"
    [] c = "=" -> "%3D"
    [] c = "?" -> "%3F"
    [] c = "/" -> "%2F"
    [] c = Quote -> "%22"
    [] c = "{" -> "%7B"
    [] c = "}" -> "%7D"
    [] c = "[" -> "%5B"
    [] c = "]" -> "%5D"
    [] c = EscQuote -> "%5C%22"
    [] c = EscNewline -> "%5Cn"
    [] OTHER -> c

encodeURIComponent(s) == [i \in 1..Len(s) |-> EncodeChar(s[i])]

encode(value) == encodeURIComponent(value)

\* a parameter value: string | boolean | undefined
\* (a tool input may also be an array of strings, a)
Undefined == [t |-> "undefined", b |-> FALSE, s |-> <<>>, a |-> <<>>]
Bool(b) == [t |-> "boolean", b |-> b, s |-> <<>>, a |-> <<>>]
Str(s) == [t |-> "string", b |-> FALSE, s |-> s, a |-> <<>>]
Arr(a) == [t |-> "array", b |-> FALSE, s |-> <<>>, a |-> a]

\* JavaScript truthiness of an optional string: defined and not empty
Truthy(o) == o # Null /\ o[1] # <<>>

CallbackPrefix == <<"things:///", "x-callback-url/">>
DirectPrefix == <<"things:///">>

\* the key=value part of one defined parameter
ParamPart(key, value) ==
  IF value.t = "boolean"
  THEN encode(key) \o <<"=">> \o <<IF value.b THEN "true" ELSE "false">>
  ELSE encode(key) \o <<"=">> \o encode(value.s)

\* a loop that skips every falsy value
RECURSIVE ParamParts_skipFalsy(_)
ParamParts_skipFalsy(params) ==
  IF params = <<>> THEN <<>>
  ELSE IF params[1][2].t = "undefined"
          \/ params[1][2] = Str(<<>>) \/ params[1][2] = Bool(FALSE)
       THEN ParamParts_skipFalsy(Tail(params))
  ELSE <<ParamPart(params[1][1], params[1][2])>> \o ParamParts_skipFalsy(Tail(params))

RECURSIVE ParamParts(_)
ParamParts(params) ==
  IF params = <<>> THEN <<>>
  ELSE IF params[1][2].t = "undefined" THEN ParamParts(Tail(params))
  ELSE <<ParamPart(params[1][1], params[1][2])>> \o ParamParts(Tail(params))

\* the credential pushed after the loop instead of before it
buildUrl_authLast(command, params, authToken) ==
  LET auth == IF Truthy(authToken)
              THEN <<<<"auth-token">> \o <<"=">> \o encode(authToken[1])>>
              ELSE <<>>
      parts == ParamParts(params) \o auth
      query == Join(parts, <<"&">>)
  IN IF query # <<>> THEN CallbackPrefix \o <<command, "?">> \o query
     ELSE CallbackPrefix \o <<command>>

\* params are the entries of the mapping, in iteration order
buildUrl(command, params, authToken) ==
  LET auth == IF Truthy(authToken)
              THEN <<<<"auth-token">> \o <<"=">> \o encode(authToken[1])>>
              ELSE <<>>
      parts == auth \o ParamParts(params)
      query == Join(parts, <<"&">>)
  IN IF query # <<>> THEN CallbackPrefix \o <<command, "?">> \o query
     ELSE CallbackPrefix \o <<command>>

\* reveal written out whenever it is defined
buildJsonUrl_revealAlways(items, authToken, reveal) ==
  LET data == <<<<"data", "=">> \o encodeURIComponent(JSONStringify(JArr(items)))>>
      auth == IF Truthy(authToken)
              THEN <<<<"auth-token">> \o <<"=">> \o encode(authToken[1])>>
              ELSE <<>>
      rev == IF reveal.t = "boolean"
             THEN <<<<"reveal", "=", IF reveal.b THEN "true" ELSE "false">>>>
             ELSE <<>>
  IN CallbackPrefix \o <<"json", "?">> \o Join(data \o auth \o rev, <<"&">>)

buildJsonUrl(items, authToken, reveal) ==
  LET data == <<<<"data", "=">> \o encodeURIComponent(JSONStringify(JArr(items)))>>
      auth == IF Truthy(authToken)
              THEN <<<<"auth-token">> \o <<"=">> \o encode(authToken[1])>>
              ELSE <<>>
      rev == IF reveal = Bool(TRUE) THEN <<<<"reveal", "=", "true">>>> ELSE <<>>
  IN CallbackPrefix \o <<"json", "?">> \o Join(data \o auth \o rev, <<"&">>)

\* a replacement text that lost a slash
toDirectUrl_twoSlashes(url) == ReplaceFirst(url, CallbackPrefix, <<"things://">>)

toDirectUrl(url) == ReplaceFirst(url, CallbackPrefix, DirectPrefix)

\* ExecuteResult; thingsId and callbackParams are optional
Result(thingsId, callbackParams) ==
  [success |-> TRUE, thingsId |-> thingsId, callbackParams |-> callbackParams]

\* the entries of the parsed object that are not null, as strings
RECURSIVE CallbackEntries(_)
CallbackEntries(ps) ==
  IF ps = <<>> THEN <<>>
  ELSE IF ps[1][2].k = "null" THEN CallbackEntries(Tail(ps))
  ELSE <<<<ps[1][1], StringOf(ps[1][2])>>>> \o CallbackEntries(Tail(ps))

\* a parser that prefers x-things-ids
parseXcallOutput_idsFirst(rawOutput) ==
  IF rawOutput = <<>> THEN Result(Null, Null)
  ELSE LET parsed == JSONParse(rawOutput)
       IN IF parsed.ok /\ parsed.v.k = "object"
          THEN LET callbackParams == CallbackEntries(parsed.v.a)
                   thingsId ==
                     IF HasKey(callbackParams, <<"x-things-ids">>)
                     THEN Some(Get(callbackParams, <<"x-things-ids">>))
                     ELSE IF HasKey(callbackParams, <<"x-things-id">>)
                     THEN Some(Get(callbackParams, <<"x-things-id">>))
                     ELSE Null
               IN Result(thingsId, Some(callbackParams))
          ELSE Result(Some(rawOutput), Null)

parseXcallOutput(rawOutput) ==
  IF rawOutput = <<>> THEN Result(Null, Null)
  ELSE LET parsed == JSONParse(rawOutput)
       IN IF parsed.ok /\ parsed.v.k = "object"
          THEN LET callbackParams == CallbackEntries(parsed.v.a)
                   thingsId ==
                     IF HasKey(callbackParams, <<"x-things-id">>)
                     THEN Some(Get(callbackParams, <<"x-things-id">>))
                     ELSE IF HasKey(callbackParams, <<"x-things-ids">>)
                     THEN Some(Get(callbackParams, <<"x-things-ids">>))
                     ELSE Null
               IN Result(thingsId, Some(callbackParams))
          ELSE Result(Some(rawOutput), Null)

\* a parser that keeps the surrounding white space
_parseXcallOutput_untrimmed(rawOutput) == parseXcallOutput(rawOutput)

_parseXcallOutput(rawOutput) == parseXcallOutput(Trim(rawOutput))

\* ------------------------------------------------------------ tools.ts
\* params.<name> of a tool call: undefined when the caller left it out
P(params, name) == IF name \in DOMAIN params THEN params[name] ELSE Undefined

\* JavaScript truthiness of a tool input
TruthyValue(v) ==
  \/ v.t = "string" /\ v.s # <<>>
  \/ v.t = "boolean" /\ v.b
  \/ v.t = "array"

\* params.<name>?.join(sep)
JoinOpt(v, sep) == IF v.t = "undefined" THEN Undefined ELSE Str(Join(v.a, <<sep>>))

\* one row per URL parameter: <<URL key, input name, separator or "">>
AddTodoTable ==
  << <<"title", "title", "">>, <<"titles", "titles", "">>,
     <<"notes", "notes", "">>, <<"when", "when", "">>,
     <<"deadline", "deadline", "">>, <<"tags", "tags", ",">>,
     <<"checklist-items", "checklistItems", "\n">>, <<"list", "list", "">>,
     <<"list-id", "listId", "">>, <<"heading", "heading", "">>,
     <<"heading-id", "headingId", "">>, <<"completed", "completed", "">>,
     <<"canceled", "canceled", "">>, <<"reveal", "reveal", "">>,
     <<"show-quick-entry", "showQuickEntry", "">>,
     <<"use-clipboard", "useClipboard", "">>,
     <<"creation-date", "creationDate", "">>,
     <<"completion-date", "completionDate", "">> >>

AddProjectTable ==
  << <<"title", "title", "">>, <<"notes", "notes", "">>,
     <<"when", "when", "">>, <<"deadline", "deadline", "">>,
     <<"tags", "tags", ",">>, <<"area", "area", "">>,
     <<"area-id", "areaId", "">>, <<"to-dos", "todos", "\n">>,
     <<"completed", "completed", "">>, <<"canceled", "canceled", "">>,
     <<"reveal", "reveal", "">>, <<"creation-date", "creationDate", "">>,
     <<"completion-date", "completionDate", "">> >>

UpdateTodoTable ==
  << <<"id", "id", "">>, <<"title", "title", "">>, <<"notes", "notes", "">>,
     <<"prepend-notes", "prependNotes", "">>,
     <<"append-notes", "appendNotes", "">>, <<"when", "when", "">>,
     <<"deadline", "deadline", "">>, <<"tags", "tags", ",">>,
     <<"add-tags", "addTags", ",">>,
     <<"checklist-items", "checklistItems", "\n">>,
     <<"prepend-checklist-items", "prependChecklistItems", "\n">>,
     <<"append-checklist-items", "appendChecklistItems", "\n">>,
     <<"list", "list", "">>, <<"list-id", "listId", "">>,
     <<"heading", "heading", "">>, <<"heading-id", "headingId", "">>,
     <<"completed", "completed", "">>, <<"canceled", "canceled", "">>,
     <<"reveal", "reveal", "">>, <<"duplicate", "duplicate", "">>,
     <<"creation-date", "creationDate", "">>,
     <<"completion-date", "completionDate", "">> >>

UpdateProjectTable ==
  << <<"id", "id", "">>, <<"title", "title", "">>, <<"notes", "notes", "">>,
     <<"prepend-notes", "prependNotes", "">>,
     <<"append-notes", "appendNotes", "">>, <<"when", "when", "">>,
     <<"deadline", "deadline", "">>, <<"tags", "tags", ",">>,
     <<"add-tags", "addTags", ",">>, <<"area", "area", "">>,
     <<"area-id", "areaId", "">>, <<"completed", "completed", "">>,
     <<"canceled", "canceled", "">>, <<"reveal", "reveal", "">>,
     <<"duplicate", "duplicate", "">>,
     <<"creation-date", "creationDate", "">>,
     <<"completion-date", "completionDate", "">> >>

ShowTable ==
  << <<"id", "id", "">>, <<"query", "query", "">>, <<"filter", "filter", "">> >>

SearchTable == << <<"query", "query", "">> >>

\* the urlParams mapping a handler builds from its input
UrlParams(table, params) ==
  [i \in 1..Len(table) |->
     << <<table[i][1]>>,
        IF table[i][3] = "" THEN P(params, table[i][2])
        ELSE JoinOpt(P(params, table[i][2]), table[i][3]) >>]

WriteTools ==
  {"add-todo", "add-project", "update-todo", "update-project", "show",
   "search", "get-version", "add-json"}
ReadTools ==
  {"get-todos", "get-todo", "get-projects", "get-project", "get-areas",
   "get-tags"}

ToolTable(tool) ==
  CASE tool = "add-todo" -> AddTodoTable
    [] tool = "add-project" -> AddProjectTable
    [] tool = "update-todo" -> UpdateTodoTable
    [] tool = "update-project" -> UpdateProjectTable
    [] tool = "show" -> ShowTable
    [] tool = "search" -> SearchTable
    [] OTHER -> <<>>

ToolCommand(tool) ==
  CASE tool = "add-todo" -> "add"
    [] tool = "add-project" -> "add-project"
    [] tool = "update-todo" -> "update"
    [] tool = "update-project" -> "update-project"
    [] tool = "show" -> "show"
    [] tool = "search" -> "search"
    [] tool = "get-version" -> "version"
    [] OTHER -> "json"

\* requireAuthToken(): the token, or Null when it throws
MissingTokenMessage ==
  <<"THINGS_AUTH_TOKEN environment variable is required for this operation. Get your token from Things -> Settings -> General -> Enable Things URLs -> Manage. Then add it to your MCP client config as an environment variable.">>

requireAuthTokenThrows(env) == ~Truthy(env)

getAuthToken(env) == env

\* params.items.some((item) => item["operation"] === "update")
hasUpdates(items) ==
  \E i \in 1..Len(items) :
    /\ HasKey(items[i].a, <<"operation">>)
    /\ Get(items[i].a, <<"operation">>).k = "string"
    /\ Get(items[i].a, <<"operation">>).s = <<"update">>

\* add-json that never asks for the token
NeedsToken_updateToolsOnly(tool, params) ==
  tool \in {"update-todo", "update-project"}

\* add-json that always asks for the token
NeedsToken_everyJson(tool, params) ==
  tool \in {"update-todo", "update-project", "add-json"}

\* does the handler call requireAuthToken() on this input
NeedsToken(tool, params) ==
  \/ tool \in {"update-todo", "update-project"}
  \/ tool = "add-json" /\ hasUpdates(params.items)

\* a validation that looks at id only
ShowInvalid_idOnly(params) == ~TruthyValue(P(params, "id"))

\* the show handler's validation: !params.id && !params.query
ShowInvalid(params) ==
  ~TruthyValue(P(params, "id")) /\ ~TruthyValue(P(params, "query"))

\* the URL a write handler passes to executeUrl
HandlerUrl(tool, params, env) ==
  IF tool = "add-json"
  THEN buildJsonUrl(params.items, getAuthToken(env), P(params, "reveal"))
  ELSE buildUrl(ToolCommand(tool), UrlParams(ToolTable(tool), params),
                IF tool \in {"update-todo", "update-project"} THEN env ELSE Null)

\* ------------------------------------------------------------------ state
VARIABLES
  xcallAvailable,     \* url.ts: the cached flag, Null until a probe resolves
  helperInstalled,    \* file system: the xcall executable exists
  THINGS_AUTH_TOKEN,  \* process.env.THINGS_AUTH_TOKEN, Null when unset
  calls,              \* the tool invocations in flight, by call id
  probeCount,         \* access() probes started since the last cache reset
  xcallReply,         \* a reply of the capturing helper, as it was composed
  rawOutput,          \* the text of that reply
  parseResult,        \* Null, or the result of parsing rawOutput
  urlCall,            \* the arguments of a call of a URL function
  urlText,            \* Null, or the URL a builder returned
  directUrls,         \* the results of successive toDirectUrl applications
  thingsStore,        \* the tables of the Things database file
  db,                 \* Null, or the tables the adapter was created from
  todayDays,          \* the clock, in days since 2001-01-01
  dbCall,             \* the arguments of a call of a query function
  dbResult,           \* what that call returned
  SQL,                \* sqlite-adapter.ts: the engine, Null until initSql resolves
  tmpdir,             \* the temporary paths of this process that exist
  fileRead            \* how the last reading of the database file went

vars == <<xcallAvailable, helperInstalled, THINGS_AUTH_TOKEN, calls,
          probeCount, xcallReply, rawOutput, parseResult,
          urlCall, urlText, directUrls,
          thingsStore, db, todayDays, dbCall, dbResult, SQL, tmpdir, fileRead>>

execVars == <<xcallAvailable, helperInstalled, THINGS_AUTH_TOKEN, calls,
              probeCount>>
parseVars == <<xcallReply, rawOutput, parseResult>>
urlVars == <<urlCall, urlText, directUrls>>
hostVars == <<SQL, tmpdir, fileRead>>
dbVars == <<thingsStore, db, todayDays, dbCall, dbResult, hostVars>>

\* a child process and the variables its listeners close over
NoProc ==
  [prog |-> "none", args |-> <<>>, state |-> "none", code |-> 0,
   stdout |-> <<>>, stderr |-> <<>>, outChunks |-> 0, errChunks |-> 0]

Spawned(prog, args) == [NoProc EXCEPT !.prog = prog, !.args = args, !.state = "running"]

\* a promise: pending, resolved with value, or rejected with reason
NoResult == [success |-> FALSE, thingsId |-> Null, callbackParams |-> Null]
Pending == [state |-> "pending", value |-> NoResult, reason |-> <<>>]

\* resolve() and reject() act on a pending promise only
resolve(p, value) ==
  IF p.state = "pending" THEN [p EXCEPT !.state = "resolved", !.value = value] ELSE p

reject(p, reason) ==
  IF p.state = "pending" THEN [p EXCEPT !.state = "rejected", !.reason = reason] ELSE p

\* what a handler gave its caller: a tool result, or a rejection
NoOutcome == [kind |-> "none", isError |-> FALSE, text |-> <<>>]
Returned(text) == [kind |-> "returned", isError |-> FALSE, text |-> text]
ReturnedError(text) == [kind |-> "returned", isError |-> TRUE, text |-> text]
Threw(reason) == [kind |-> "threw", isError |-> FALSE, text |-> reason]

Idle ==
  [pc |-> "idle", tool |-> "none", params |-> <<>>, url |-> Null,
   urlBuilt |-> 0, flag |-> Null, spawned |-> 0, proc |-> NoProc,
   exec |-> Pending, settles |-> 0, osa |-> NoProc, osaP |-> Pending,
   outcome |-> NoOutcome]

\* ----------------------------------------------------------------- inputs
XcallPath == "/Applications/xcall.app/Contents/MacOS/xcall"

ExitCodes == {0, 1}
\* the code of the close event that follows a failed launch (-ENOENT)
LaunchFailCode == 0 - 2

CodeText(code) ==
  CASE code = 0 -> "0" [] code = 1 -> "1" [] code = 2 -> "2" [] OTHER -> "-2"

IdReply == <<"{", Quote, "x-things-id", Quote, ":", Quote, "abc", Quote, "}", "\n">>
VersionReply ==
  <<"{", Quote, "x-things-scheme-version", Quote, ":", Quote, "2", Quote, "}">>

EmptyObjectReply == <<"{", "}", "\n">>

\* what the helper writes for a command: the created or updated ids, the
\* version fields, or no fields for the navigation commands
StdoutChunks(command) ==
  CASE command = "version" -> {VersionReply, <<"abc123", "\n">>}
    [] command \in {"show", "search"} -> {EmptyObjectReply}
    [] OTHER -> {IdReply, <<"abc123", "\n">>}
StderrChunks == {<<"boom", "\n">>}
OsaChunks == {<<"3.20", "\n">>}

Tokens == {Null, Some(<<>>), Some(<<"tok">>)}

CreateItem == JObj(<< <<<<"type">>, JStr(<<"to-do">>)>> >>)
UpdateItem ==
  JObj(<< <<<<"type">>, JStr(<<"to-do">>)>>,
          <<<<"operation">>, JStr(<<"update">>)>>,
          <<<<"id">>, JStr(<<"t1">>)>> >>)

OptStrings == {Undefined, Str(<<>>), Str(<<"x">>)}

ToolInputs ==
  {[tool |-> "add-todo", params |-> [title |-> v]] : v \in {Undefined, Str(<<"a", " ", "b">>)}}
  \cup {[tool |-> "add-project", params |-> [title |-> Str(<<"p">>), tags |-> Arr(<<<<"t1">>, <<"t2">>>>)]]}
  \cup {[tool |-> "update-todo", params |-> [id |-> Str(<<"t1">>), deadline |-> Str(<<>>)]]}
  \cup {[tool |-> "update-project", params |-> [id |-> Str(<<"p1">>), completed |-> Bool(TRUE)]]}
  \cup {[tool |-> "show", params |-> [id |-> i, query |-> q]] : i \in OptStrings, q \in OptStrings}
  \cup {[tool |-> "search", params |-> [query |-> q]] :
          q \in {Undefined, Str(<<"a", " ", "b">>)}}
  \cup {[tool |-> "get-version", params |-> [none |-> Undefined]]}
  \cup {[tool |-> "add-json", params |-> [items |-> it, reveal |-> r]] :
          it \in {<<>>, <<CreateItem>>, <<UpdateItem>>, <<CreateItem, UpdateItem>>},
          r \in {Undefined, Bool(TRUE)}}
  \cup {[tool |-> rt, params |-> [id |-> Str(<<"t1">>)]] : rt \in ReadTools}

\* the inputs of the runs with overlapping calls
ExecInputs ==
  {[tool |-> "search", params |-> [query |-> Str(<<"a", " ", "b">>)]]}

\* ------------------------------------------------- url.ts, execution layer
\* executeWithXcall: the process it spawns
XcallProc(url) ==
  Spawned("xcall", << <<XcallPath>>, <<"-url">>, url, <<"-activateApp">>, <<"NO">> >>)

\* executeWithOpen: the process it spawns
OpenProc(url) == Spawned("open", << <<"open">>, toDirectUrl(url) >>)

\* a dispatch that ignores the flag
DispatchProc_helperOnly(flag, url) == XcallProc(url)

\* executeUrl, after isXcallAvailable() gave flag
DispatchProc(flag, url) == IF flag THEN XcallProc(url) ELSE OpenProc(url)

\* getAppVersion: the process it spawns
OsaProc ==
  Spawned("osascript",
          << <<"osascript">>, <<"-e">>,
             <<"tell application \"Things3\" to return version">> >>)

\* a close listener that takes any output as a success
XcallOnClose_outputWins(p, code, stdout, stderr) ==
  IF code # 0 /\ stdout = <<>>
  THEN reject(p, <<"xcall failed (code ", CodeText(code), "): ">> \o Trim(stderr))
  ELSE resolve(p, parseXcallOutput(Trim(stdout)))

\* the close listeners: the promise after close(code)
XcallOnClose(p, code, stdout, stderr) ==
  IF code # 0
  THEN reject(p, <<"xcall failed (code ", CodeText(code), "): ">> \o Trim(stderr))
  ELSE resolve(p, parseXcallOutput(Trim(stdout)))

\* a plain dispatch that reports an identifier
OpenOnClose_withId(p, code) ==
  IF code # 0
  THEN reject(p, <<"open command failed with code ", CodeText(code)>>)
  ELSE resolve(p, Result(Some(<<"opened">>), Some(<<>>)))

OpenOnClose(p, code) ==
  IF code # 0
  THEN reject(p, <<"open command failed with code ", CodeText(code)>>)
  ELSE resolve(p, Result(Null, Null))

OsaOnClose(p, code, stdout, stderr) ==
  IF code # 0
  THEN reject(p, <<"osascript failed: ">> \o Trim(stderr))
  ELSE resolve(p, Trim(stdout))

OnClose(proc, p, code) ==
  CASE proc.prog = "xcall" -> XcallOnClose(p, code, proc.stdout, proc.stderr)
    [] proc.prog = "open" -> OpenOnClose(p, code)
    [] OTHER -> OsaOnClose(p, code, proc.stdout, proc.stderr)

\* the error listeners: reject(err)
SpawnError(proc) == <<"spawn ", proc.prog, " ENOENT">>
OnError(proc, p) == reject(p, SpawnError(proc))

\* the promise that belongs to a process field of a call
PromiseOf(w) == IF w = "proc" THEN "exec" ELSE "osaP"

Changed(p, q) == p.state # q.state \/ p.reason # q.reason

\* ---------------------------------------------------- handler results
IdInfo(result, label) ==
  IF Truthy(result.thingsId)
  THEN <<" (", label, ": ">> \o result.thingsId[1] \o <<")">>
  ELSE <<>>

AddTodoLabel(params) ==
  IF TruthyValue(P(params, "titles")) THEN <<"to-dos">>
  ELSE IF TruthyValue(P(params, "title"))
       THEN <<"to-do \"">> \o P(params, "title").s \o <<"\"">>
  ELSE IF TruthyValue(P(params, "useClipboard")) THEN <<"to-do from clipboard">>
  ELSE IF TruthyValue(P(params, "showQuickEntry")) THEN <<"to-do via Quick Entry">>
  ELSE <<"to-do">>

CountText(n) == CASE n = 0 -> "0" [] n = 1 -> "1" [] n = 2 -> "2" [] OTHER -> "many"

\* what the handler returns once executeUrl has resolved with result
SuccessText(tool, params, result) ==
  CASE tool = "add-todo" ->
         <<"Created ">> \o AddTodoLabel(params) \o IdInfo(result, "ID")
    [] tool = "add-project" ->
         <<"Created project \"">> \o P(params, "title").s \o <<"\"">>
           \o IdInfo(result, "ID")
    [] tool = "update-todo" ->
         <<"Updated to-do ">> \o P(params, "id").s \o IdInfo(result, "ID")
    [] tool = "update-project" ->
         <<"Updated project ">> \o P(params, "id").s \o IdInfo(result, "ID")
    [] tool = "show" ->
         <<"Navigated to ">> \o
           (IF P(params, "id").t # "undefined" THEN P(params, "id").s
            ELSE IF P(params, "query").t # "undefined" THEN P(params, "query").s
            ELSE <<"Things">>)
    [] tool = "search" ->
         IF TruthyValue(P(params, "query"))
         THEN <<"Opened search for \"">> \o P(params, "query").s \o <<"\"">>
         ELSE <<"Opened Things search">>
    [] OTHER ->
         <<"Processed ", CountText(Len(params.items)),
           IF Len(params.items) = 1 THEN " item" ELSE " items">>
           \o IdInfo(result, "IDs")

\* result.callbackParams?.[key], Null when there is none
CallbackParam(result, key) ==
  IF result.callbackParams # Null /\ HasKey(result.callbackParams[1], key)
  THEN Some(Get(result.callbackParams[1], key))
  ELSE Null

\* get-version: the version text from the callback fields, Null when the
\* handler has to ask the application instead
VersionText(result) ==
  LET schemeVersion == CallbackParam(result, <<"x-things-scheme-version">>)
      clientVersion == CallbackParam(result, <<"x-things-client-version">>)
      parts == (IF Truthy(schemeVersion) THEN <<<<"scheme ">> \o schemeVersion[1]>> ELSE <<>>)
               \o (IF Truthy(clientVersion) THEN <<<<"client ">> \o clientVersion[1]>> ELSE <<>>)
  IN IF Truthy(schemeVersion) \/ Truthy(clientVersion)
     THEN Some(<<"Things version info: ">> \o Join(parts, <<", ">>))
     ELSE Null

\* the read tools: the query returns rows, finds nothing, or throws
QueryOutcomes == {"rows", "absent", "error"}

ReadOutcome(tool, params, q) ==
  IF q = "error" THEN ReturnedError(<<"Failed to query: ", tool>>)
  ELSE IF q = "absent" /\ tool \in {"get-todo", "get-project"}
       THEN ReturnedError(<<"No item found with ID: ">> \o P(params, "id").s)
  ELSE Returned(<<"rows of ", tool>>)

\* ------------------------------------------------- replies of the helper
\* a member value: its JSON text and the string JavaScript makes of it
ValueForm(text, str, isNull) == [text |-> text, str |-> str, isNull |-> isNull]

ValueForms ==
  {ValueForm(<<Quote, "abc", Quote>>, <<"abc">>, FALSE),
   ValueForm(<<Quote, Quote>>, <<>>, FALSE),
   ValueForm(<<Quote, "a", ",", "b", Quote>>, <<"a", ",", "b">>, FALSE),
   ValueForm(<<"1", "2">>, <<"1", "2">>, FALSE),
   ValueForm(<<"true">>, <<"true">>, FALSE),
   ValueForm(<<"null">>, <<"null">>, TRUE),
   ValueForm(<<"[", Quote, "a", Quote, ",", "1", "]">>, <<"a", ",", "1">>, FALSE),
   ValueForm(<<"{", "}">>, <<"[object Object]">>, FALSE)}

ReplyKeys == {<<"x-things-id">>, <<"x-things-ids">>, <<"a">>}

Members == {[key |-> k, value |-> v] : k \in ReplyKeys, v \in ValueForms}

RECURSIVE SeqsUpTo(_, _)
SeqsUpTo(S, n) ==
  IF n = 0 THEN {<<>>}
  ELSE LET shorter == SeqsUpTo(S, n - 1)
       IN shorter \cup {Append(q, x) : q \in {r \in shorter : Len(r) = n - 1}, x \in S}

MemberText(m) == <<Quote>> \o m.key \o <<Quote, ":">> \o m.value.text

ObjectText(members) ==
  <<"{">> \o Join([i \in 1..Len(members) |-> MemberText(members[i])], <<",">>)
          \o <<"}">>

\* shape "object": the members as a JSON object; "truncated": that text cut
\* after cut symbols; "value": the first member's value alone; "bare": a
\* plain word; "empty": nothing.  pad puts white space around the text.
Reply(shape, members, cut, pad) ==
  [shape |-> shape, members |-> members, cut |-> cut, pad |-> pad]

Body(reply) ==
  CASE reply.shape = "object" -> ObjectText(reply.members)
    [] reply.shape = "truncated" ->
         SubSeq(ObjectText(reply.members), 1, reply.cut)
    [] reply.shape = "value" -> reply.members[1].value.text
    [] reply.shape = "bare" -> <<"abc123">>
    [] OTHER -> <<>>

Render(reply) ==
  IF reply.pad THEN <<" ">> \o Body(reply) \o <<"\n">> ELSE Body(reply)

Replies ==
  LET lists == SeqsUpTo(Members, MaxMembers)
  IN {Reply("object", ms, 0, pad) : ms \in lists, pad \in BOOLEAN}
     \cup {Reply("truncated", mc[1], mc[2], mc[3]) :
             mc \in {x \in {l \in lists : Len(l) <= 1} \X (1..MaxCut) \X BOOLEAN :
                       x[2] < Len(ObjectText(x[1]))}}
     \cup {Reply("value", ms, 0, pad) :
             ms \in {l \in lists : Len(l) = 1}, pad \in BOOLEAN}
     \cup {Reply(sh, <<>>, 0, pad) : sh \in {"bare", "empty"}, pad \in BOOLEAN}

NoReply == Reply("empty", <<>>, 0, FALSE)

\* ------------------------------------------------------------------ db.ts
\* Text (uuids, titles, filter values) is a sequence of symbols; a nullable
\* column holds Null or Some(value).

\* a TMTask row with the schema's defaults
TaskRow ==
  [uuid |-> <<>>, title |-> <<>>, notes |-> Null, type |-> 0, status |-> 0,
   start |-> Some(0), startDate |-> Null, deadline |-> Null, todayIndex |-> 0,
   project |-> Null, area |-> Null, heading |-> Null, trashed |-> 0,
   creationDate |-> 0, userModificationDate |-> Null, stopDate |-> Null,
   index |-> 0]

AreaRow(uuid, title) == [uuid |-> uuid, title |-> title]
TagRow(uuid, title) == [uuid |-> uuid, title |-> title]
TaskTagRow(tasks, tags) == [tasks |-> tasks, tags |-> tags]

\* the lengths of the months of 2001, the year of the Core Data epoch
MonthLengths == <<31, 28, 31, 30, 31, 30, 31, 31, 30, 31, 30, 31>>

RECURSIVE MonthAndDay(_, _)
MonthAndDay(dayOfYear, month) ==
  IF dayOfYear < MonthLengths[month]
  THEN [month |-> month, day |-> dayOfYear + 1]
  ELSE MonthAndDay(dayOfYear - MonthLengths[month], month + 1)

\* dayIntegerToDate, for the days of 2001 (YYYY-MM-DD as its three numbers)
dayIntegerToDate(dayInt) ==
  LET md == MonthAndDay(dayInt, 1)
  IN [year |-> 2001, month |-> md.month, day |-> md.day]

\* coreDataTimestampToISO: the UTC date and the second of that day
coreDataTimestampToISO(timestamp) ==
  [date |-> dayIntegerToDate(timestamp \div 86400), second |-> timestamp % 86400]

mapStatus(status) ==
  IF status = 3 THEN "completed" ELSE IF status = 2 THEN "canceled" ELSE "open"

mapStart(start) ==
  IF start = Some(0) THEN Some("inbox")
  ELSE IF start = Some(1) THEN Some("anytime")
  ELSE IF start = Some(2) THEN Some("someday")
  ELSE Null

\* LEFT JOIN table ON key = table.uuid, uuid being the primary key
Lookup(table, key) ==
  IF key # Null /\ \E i \in 1..Len(table) : table[i].uuid = key[1]
  THEN Some(table[CHOOSE i \in 1..Len(table) : table[i].uuid = key[1]])
  ELSE Null

Column(row, name) == IF row = Null THEN Null ELSE row[1][name]

COALESCE(x, y) == IF x # Null THEN x ELSE y

\* FROM TMTask t LEFT JOIN TMTask p LEFT JOIN TMArea a LEFT JOIN TMTask h
TodoJoin(store, t) ==
  LET p == Lookup(store.TMTask, t.project)
      h == Lookup(store.TMTask, t.heading)
  IN [t |-> t,
      p |-> p,
      a |-> Lookup(store.TMArea, COALESCE(t.area, Column(p, "area"))),
      h |-> IF h # Null /\ h[1].type = 2 THEN h ELSE Null]

\* the filter is given: a JavaScript truthy string
Given(filter) == filter # Null /\ filter[1] # <<>>

StatusCode(status) ==
  CASE status = <<"open">> -> 0
    [] status = <<"completed">> -> 3
    [] status = <<"canceled">> -> 2

\* a today view that goes by the start date alone
ListWhere_todayByDate(list, t, today) ==
  CASE list = <<"inbox">> -> t.status = 0 /\ t.start = Some(0) /\ t.project = Null
    [] list = <<"today">> ->
         t.status = 0 /\ t.startDate # Null /\ t.startDate[1] <= today
    [] list = <<"anytime">> ->
         /\ t.status = 0 /\ t.start = Some(1)
         /\ (t.startDate = Null \/ t.startDate[1] <= today)
    [] list = <<"someday">> -> t.status = 0 /\ t.start = Some(2)
    [] list = <<"upcoming">> ->
         /\ t.status = 0 /\ t.start = Some(1)
         /\ t.startDate # Null /\ t.startDate[1] > today
    [] list = <<"logbook">> -> t.status = 3
    [] list = <<"trash">> -> t.trashed = 1
    [] OTHER -> TRUE

\* the conditions of a list view
ListWhere(list, t, today) ==
  CASE list = <<"inbox">> -> t.status = 0 /\ t.start = Some(0) /\ t.project = Null
    [] list = <<"today">> ->
         /\ t.status = 0
         /\ \/ t.todayIndex > 0
            \/ t.startDate # Null /\ t.startDate[1] <= today
    [] list = <<"anytime">> ->
         /\ t.status = 0 /\ t.start = Some(1)
         /\ (t.startDate = Null \/ t.startDate[1] <= today)
    [] list = <<"someday">> -> t.status = 0 /\ t.start = Some(2)
    [] list = <<"upcoming">> ->
         /\ t.status = 0 /\ t.start = Some(1)
         /\ t.startDate # Null /\ t.startDate[1] > today
    [] list = <<"logbook">> -> t.status = 3
    [] list = <<"trash">> -> t.trashed = 1
    [] OTHER -> TRUE

\* column LIKE %search%; NULL LIKE anything is not true
Like(column, search) == column # Null /\ Includes(column[1], search)

\* a WHERE that lost the default `t.trashed = 0`
TodoWhere_noTrashCondition(j, filters, today) ==
  /\ j.t.type = 0
  /\ Given(filters.list) => ListWhere(filters.list[1], j.t, today)
  /\ Given(filters.status) => j.t.status = StatusCode(filters.status[1])
  /\ Given(filters.projectId) => j.t.project = filters.projectId
  /\ Given(filters.areaId) =>
       \/ j.t.area = filters.areaId
       \/ Column(j.p, "area") = filters.areaId
  /\ Given(filters.search) =>
       \/ Like(Some(j.t.title), filters.search[1])
       \/ Like(j.t.notes, filters.search[1])

\* WHERE of queryTodos; filters.tag adds no condition
TodoWhere(j, filters, today) ==
  /\ j.t.type = 0
  /\ filters.list # Some(<<"trash">>) => j.t.trashed = 0
  /\ Given(filters.list) => ListWhere(filters.list[1], j.t, today)
  /\ Given(filters.status) => j.t.status = StatusCode(filters.status[1])
  /\ Given(filters.projectId) => j.t.project = filters.projectId
  /\ Given(filters.areaId) =>
       \/ j.t.area = filters.areaId
       \/ Column(j.p, "area") = filters.areaId
  /\ Given(filters.search) =>
       \/ Like(Some(j.t.title), filters.search[1])
       \/ Like(j.t.notes, filters.search[1])

\* an ORDER BY whose creation time ascends
Before_creationAscending(x, y, order) ==
  CASE order = "logbook" ->
         /\ x.t.stopDate # Null
         /\ (y.t.stopDate = Null \/ x.t.stopDate[1] > y.t.stopDate[1])
    [] order = "index" -> x.t.index < y.t.index
    [] OTHER ->
         \/ x.t.todayIndex < y.t.todayIndex
         \/ /\ x.t.todayIndex = y.t.todayIndex
            /\ x.t.creationDate < y.t.creationDate

\* ORDER BY: does row x sort strictly before row y
Before(x, y, order) ==
  CASE order = "logbook" ->
         /\ x.t.stopDate # Null
         /\ (y.t.stopDate = Null \/ x.t.stopDate[1] > y.t.stopDate[1])
    [] order = "index" -> x.t.index < y.t.index
    [] OTHER ->
         \/ x.t.todayIndex < y.t.todayIndex
         \/ /\ x.t.todayIndex = y.t.todayIndex
            /\ x.t.creationDate > y.t.creationDate

RECURSIVE InsertRow(_, _, _)
InsertRow(sorted, x, order) ==
  IF sorted = <<>> THEN <<x>>
  ELSE IF Before(x, sorted[1], order) THEN <<x>> \o sorted
  ELSE <<sorted[1]>> \o InsertRow(Tail(sorted), x, order)

\* rows that tie keep their table order
RECURSIVE SortRows(_, _)
SortRows(rows, order) ==
  IF rows = <<>> THEN <<>>
  ELSE InsertRow(SortRows(SubSeq(rows, 1, Len(rows) - 1), order), rows[Len(rows)], order)

\* LIMIT n; a negative n puts no upper bound on the number of rows
Take(rows, n) ==
  IF n < 0 THEN rows ELSE SubSeq(rows, 1, IF n < Len(rows) THEN n ELSE Len(rows))

DefaultLimit == 50

Range(s) == {s[i] : i \in 1..Len(s)}

\* the tag titles in ascending order
TagCollation == << <<"errand">>, <<"urgent">> >>

\* TMTaskTag tt JOIN TMTag t ON tt.tags = t.uuid WHERE tt.tasks IN (uuids)
TagJoin(store, uuids) ==
  LET hit == SelectSeq(store.TMTaskTag,
               LAMBDA tt : tt.tasks \in Range(uuids)
                           /\ Lookup(store.TMTag, Some(tt.tags)) # Null)
  IN [i \in 1..Len(hit) |->
        [taskUuid |-> hit[i].tasks,
         title |-> Lookup(store.TMTag, Some(hit[i].tags))[1].title]]

RECURSIVE ByTitle(_, _)
ByTitle(rows, rank) ==
  IF rank > Len(TagCollation) THEN <<>>
  ELSE SelectSeq(rows, LAMBDA r : r.title = TagCollation[rank]) \o ByTitle(rows, rank + 1)

\* batchLoadTags: task uuid -> its tag titles, for the tasks that have tags
batchLoadTags(store, uuids) ==
  LET rows == IF uuids = <<>> THEN <<>> ELSE ByTitle(TagJoin(store, uuids), 1)
  IN [u \in {rows[i].taskUuid : i \in 1..Len(rows)} |->
        LET mine == SelectSeq(rows, LAMBDA r : r.taskUuid = u)
        IN [i \in 1..Len(mine) |-> mine[i].title]]

\* batchLoadChecklists: task uuid -> its checklist items, by index
batchLoadChecklists(store, uuids) ==
  LET hit == IF uuids = <<>> THEN <<>>
             ELSE SelectSeq(store.TMChecklistItem, LAMBDA c : c.task \in Range(uuids))
      wrapped == SortRows([i \in 1..Len(hit) |-> [t |-> hit[i]]], "index")
  IN [u \in {hit[i].task : i \in 1..Len(hit)} |->
        LET mine == SelectSeq(wrapped, LAMBDA w : w.t.task = u)
        IN [i \in 1..Len(mine) |->
              [uuid |-> mine[i].t.uuid, title |-> mine[i].t.title,
               completed |-> mine[i].t.status = 3]]]

MapGet(map, key) == IF key \in DOMAIN map THEN map[key] ELSE <<>>

OptDate(day) == IF day # Null THEN Some(dayIntegerToDate(day[1])) ELSE Null
OptISO(timestamp) == IF timestamp # Null THEN Some(coreDataTimestampToISO(timestamp[1])) ELSE Null

\* the SELECT list of the to-do queries, then formatTodo
formatTodo(j, tagsMap, checklistMap) ==
  [uuid |-> j.t.uuid,
   title |-> j.t.title,
   notes |-> IF j.t.notes # Null THEN j.t.notes[1] ELSE <<>>,
   status |-> mapStatus(j.t.status),
   start |-> mapStart(j.t.start),
   startDate |-> OptDate(j.t.startDate),
   deadline |-> OptDate(j.t.deadline),
   todayIndex |-> j.t.todayIndex,
   projectId |-> j.t.project,
   projectTitle |-> IF j.p # Null THEN Some(j.p[1].title) ELSE Null,
   areaId |-> j.t.area,
   areaTitle |-> IF j.a # Null THEN Some(j.a[1].title) ELSE Null,
   headingId |-> j.t.heading,
   headingTitle |-> IF j.h # Null THEN Some(j.h[1].title) ELSE Null,
   creationDate |-> coreDataTimestampToISO(j.t.creationDate),
   modificationDate |-> OptISO(j.t.userModificationDate),
   completionDate |-> OptISO(j.t.stopDate),
   tags |-> MapGet(tagsMap, j.t.uuid),
   checklistItems |-> MapGet(checklistMap, j.t.uuid)]

AllJoined(store) == [i \in 1..Len(store.TMTask) |-> TodoJoin(store, store.TMTask[i])]

\* the first statement of queryTodos: WHERE, ORDER BY, LIMIT
TodoRowFetch(store, filters, today) ==
  LET matching == SelectSeq(AllJoined(store), LAMBDA j : TodoWhere(j, filters, today))
      order == IF filters.list = Some(<<"logbook">>) THEN "logbook" ELSE "default"
      limit == IF filters.limit # Null THEN filters.limit[1] ELSE DefaultLimit
  IN Take(SortRows(matching, order), limit)

queryTodos(store, filters, today) ==
  LET rows == TodoRowFetch(store, filters, today)
      uuids == [i \in 1..Len(rows) |-> rows[i].t.uuid]
  IN IF uuids = <<>> THEN <<>>
     ELSE [i \in 1..Len(rows) |->
             formatTodo(rows[i], batchLoadTags(store, uuids),
                        batchLoadChecklists(store, uuids))]

\* a lookup by uuid alone
queryTodoById_anyType(store, uuid) ==
  LET rows == SelectSeq(AllJoined(store), LAMBDA j : j.t.uuid = uuid)
  IN IF rows = <<>> THEN Null
     ELSE Some(formatTodo(rows[1], batchLoadTags(store, <<uuid>>),
                          batchLoadChecklists(store, <<uuid>>)))

\* WHERE t.uuid = $uuid AND t.type = 0; Null when no row matches
queryTodoById(store, uuid) ==
  LET rows == SelectSeq(AllJoined(store), LAMBDA j : j.t.uuid = uuid /\ j.t.type = 0)
  IN IF rows = <<>> THEN Null
     ELSE Some(formatTodo(rows[1], batchLoadTags(store, <<uuid>>),
                          batchLoadChecklists(store, <<uuid>>)))

\* WHERE t.uuid = $uuid AND t.type = 1, then the project's headings and
\* to-dos; Null when no row matches
queryProjectById(store, uuid) ==
  LET rows == SelectSeq(store.TMTask, LAMBDA t : t.uuid = uuid /\ t.type = 1)
      row == rows[1]
      area == Lookup(store.TMArea, row.area)
      tagsMap == batchLoadTags(store, <<uuid>>)
      headingRows ==
        SortRows([i \in 1..Len(store.TMTask) |-> [t |-> store.TMTask[i]]], "index")
      headings ==
        SelectSeq(headingRows,
          LAMBDA w : w.t.project = Some(uuid) /\ w.t.type = 2 /\ w.t.trashed = 0)
      \* $uuid AS projectTitle, LEFT JOIN TMArea a2 ON t.area = a2.uuid
      children ==
        [i \in 1..Len(store.TMTask) |->
           LET t == store.TMTask[i]
               h == Lookup(store.TMTask, t.heading)
           IN [t |-> t,
               p |-> Some([title |-> uuid]),
               a |-> Lookup(store.TMArea, t.area),
               h |-> IF h # Null /\ h[1].type = 2 THEN h ELSE Null]]
      todoRows ==
        SortRows(SelectSeq(children,
                   LAMBDA j : j.t.project = Some(uuid) /\ j.t.type = 0 /\ j.t.trashed = 0),
                 "index")
      todoUuids == [i \in 1..Len(todoRows) |-> todoRows[i].t.uuid]
  IN IF rows = <<>> THEN Null
     ELSE Some(
       [uuid |-> row.uuid,
        title |-> row.title,
        notes |-> IF row.notes # Null THEN row.notes[1] ELSE <<>>,
        status |-> mapStatus(row.status),
        start |-> mapStart(row.start),
        startDate |-> OptDate(row.startDate),
        deadline |-> OptDate(row.deadline),
        areaId |-> row.area,
        areaTitle |-> IF area # Null THEN Some(area[1].title) ELSE Null,
        creationDate |-> coreDataTimestampToISO(row.creationDate),
        modificationDate |-> OptISO(row.userModificationDate),
        completionDate |-> OptISO(row.stopDate),
        tags |-> MapGet(tagsMap, uuid),
        headings |-> [i \in 1..Len(headings) |->
                        [uuid |-> headings[i].t.uuid, title |-> headings[i].t.title]],
        todos |-> [i \in 1..Len(todoRows) |->
                     formatTodo(todoRows[i], batchLoadTags(store, todoUuids),
                                batchLoadChecklists(store, todoUuids))]])

\* WHERE of queryProjects
ProjectWhere(t, filters) ==
  /\ t.type = 1
  /\ t.trashed = 0
  /\ Given(filters.status) => t.status = StatusCode(filters.status[1])
  /\ Given(filters.areaId) => t.area = filters.areaId
  /\ Given(filters.search) =>
       \/ Like(Some(t.title), filters.search[1])
       \/ Like(t.notes, filters.search[1])

\* a count that takes every child row of the project, whatever its kind
ChildCount_anyRow(store, uuid, openOnly) ==
  Cardinality({i \in 1..Len(store.TMTask) :
                 /\ store.TMTask[i].project = Some(uuid)
                 /\ openOnly => store.TMTask[i].status = 0})

\* SELECT COUNT(*) FROM TMTask c WHERE c.project = t.uuid AND c.type = 0
\* AND c.trashed = 0 [AND c.status = 0]
ChildCount(store, uuid, openOnly) ==
  Cardinality({i \in 1..Len(store.TMTask) :
                 /\ store.TMTask[i].project = Some(uuid)
                 /\ store.TMTask[i].type = 0
                 /\ store.TMTask[i].trashed = 0
                 /\ openOnly => store.TMTask[i].status = 0})

\* FROM TMTask t LEFT JOIN TMArea a ON t.area = a.uuid, with the two counts
ProjectJoin(store, t) ==
  [t |-> t,
   a |-> Lookup(store.TMArea, t.area),
   openTodoCount |-> ChildCount(store, t.uuid, TRUE),
   totalTodoCount |-> ChildCount(store, t.uuid, FALSE)]

formatProject(r, tagsMap) ==
  [uuid |-> r.t.uuid,
   title |-> r.t.title,
   notes |-> IF r.t.notes # Null THEN r.t.notes[1] ELSE <<>>,
   status |-> mapStatus(r.t.status),
   start |-> mapStart(r.t.start),
   startDate |-> OptDate(r.t.startDate),
   deadline |-> OptDate(r.t.deadline),
   areaId |-> r.t.area,
   areaTitle |-> IF r.a # Null THEN Some(r.a[1].title) ELSE Null,
   creationDate |-> coreDataTimestampToISO(r.t.creationDate),
   modificationDate |-> OptISO(r.t.userModificationDate),
   completionDate |-> OptISO(r.t.stopDate),
   tags |-> MapGet(tagsMap, r.t.uuid),
   openTodoCount |-> r.openTodoCount,
   totalTodoCount |-> r.totalTodoCount]

\* the first statement of queryProjects: WHERE, ORDER BY, LIMIT
ProjectRowFetch(store, filters) ==
  LET joined == [i \in 1..Len(store.TMTask) |-> ProjectJoin(store, store.TMTask[i])]
      matching == SelectSeq(joined, LAMBDA j : ProjectWhere(j.t, filters))
      limit == IF filters.limit # Null THEN filters.limit[1] ELSE DefaultLimit
  IN Take(SortRows(matching, "default"), limit)

queryProjects(store, filters) ==
  LET rows == ProjectRowFetch(store, filters)
      uuids == [i \in 1..Len(rows) |-> rows[i].t.uuid]
  IN IF uuids = <<>> THEN <<>>
     ELSE [i \in 1..Len(rows) |-> formatProject(rows[i], batchLoadTags(store, uuids))]

\* a statement handed to the adapter: what it reads and the ids bound to its
\* ? placeholders
Statement(reads, ids) == [reads |-> reads, ids |-> ids]

\* a loader that asks once for every id
BatchStatement_perRow(reads, uuids) ==
  [i \in 1..Len(uuids) |-> Statement(reads, <<uuids[i]>>)]

\* the database.all call of batchLoadTags / batchLoadChecklists, which is
\* skipped for an empty id list
BatchStatement(reads, uuids) ==
  IF uuids = <<>> THEN <<>> ELSE <<Statement(reads, uuids)>>

\* the statements queryTodos executes, in order
queryTodosStatements(store, filters, today) ==
  LET rows == TodoRowFetch(store, filters, today)
      uuids == [i \in 1..Len(rows) |-> rows[i].t.uuid]
  IN <<Statement("todos", <<>>)>>
     \o (IF uuids = <<>> THEN <<>>
         ELSE BatchStatement("tags", uuids) \o BatchStatement("checklists", uuids))

\* the statements queryProjects executes, in order
queryProjectsStatements(store, filters) ==
  LET rows == ProjectRowFetch(store, filters)
      uuids == [i \in 1..Len(rows) |-> rows[i].t.uuid]
  IN <<Statement("projects", <<>>)>>
     \o (IF uuids = <<>> THEN <<>> ELSE BatchStatement("tags", uuids))

\* getDb: the adapter is created from the database file on first use and
\* kept
getDb(cached, file) == IF cached # Null THEN cached ELSE Some(file)

\* the engine after initSql() has resolved
SqlJsStatic == Some("SqlJsStatic")

\* one run of readSqliteFile: what the snapshot tool did, what the raw read
\* did if it was tried, and whether the function returned
FileRead(sqlite3, raw, returned) ==
  [sqlite3 |-> sqlite3,
   raw |-> IF sqlite3 = "snapshot" THEN "none" ELSE raw,
   returned |-> returned]

NoFileRead == FileRead("none", "none", FALSE)

\* the temporary directory of one reading and the snapshot file in it
TmpDir == "things-mcp-XXXXXX"
TmpFile == "things-mcp-XXXXXX/backup.sqlite"

\* what `sqlite3 dbPath ".backup tmpFile"` can do: write the snapshot, fail
\* before it created the file, fail after it created the file
Sqlite3Outcomes == {"snapshot", "fails", "fails, file left"}

\* what readFileSync(dbPath) can do
RawReadOutcomes == {"reads", "throws"}

\* a reading that cleans up only on the way that returns the snapshot
readSqliteFile_cleanupOnSuccess(file, tmp, sqlite3, raw) ==
  LET made == tmp \cup {TmpDir}
      written == IF sqlite3 = "fails" THEN made ELSE made \cup {TmpFile}
  IN [tmp |-> IF sqlite3 = "snapshot" THEN written \ {TmpFile, TmpDir} ELSE written,
      data |-> IF sqlite3 = "snapshot" \/ raw = "reads" THEN Some(file) ELSE Null]

\* readSqliteFile: mkdtempSync, then try the snapshot, catch with the raw
\* read, finally unlinkSync(tmpFile) and rmdirSync(tmp), each in its own
\* try; data is Null when the raw read threw
readSqliteFile(file, tmp, sqlite3, raw) ==
  LET made == tmp \cup {TmpDir}
      written == IF sqlite3 = "fails" THEN made ELSE made \cup {TmpFile}
      unlinked == written \ {TmpFile}
      removed == IF TmpFile \in unlinked THEN unlinked ELSE unlinked \ {TmpDir}
  IN [tmp |-> removed,
      data |-> IF sqlite3 = "snapshot" \/ raw = "reads" THEN Some(file) ELSE Null]

\* createAdapter: new SQL.Database(data) throws a TypeError while SQL is
\* undefined (Null here); otherwise the adapter holds its own copy of data
createAdapter(engine, data) == IF engine = Null THEN Null ELSE Some(data)

\* getDb in full: the module's db if set, else detectDbPath, readSqliteFile
\* and createAdapter; db is assigned only when all three returned
GetDbOutcome(cached, engine, found, file, tmp, sqlite3, raw) ==
  LET read == readSqliteFile(file, tmp, sqlite3, raw)
  IN IF cached # Null
     THEN [db |-> cached, tmp |-> tmp, error |-> "", read |-> NoFileRead]
     ELSE IF ~found
     THEN [db |-> Null, tmp |-> tmp, error |-> "Things 3 database not found",
           read |-> NoFileRead]
     ELSE IF read.data = Null
     THEN [db |-> Null, tmp |-> read.tmp, error |-> "readFileSync",
           read |-> FileRead(sqlite3, raw, FALSE)]
     ELSE IF createAdapter(engine, read.data[1]) = Null
     THEN [db |-> Null, tmp |-> read.tmp, error |-> "TypeError: SQL is undefined",
           read |-> FileRead(sqlite3, raw, TRUE)]
     ELSE [db |-> createAdapter(engine, read.data[1]), tmp |-> read.tmp, error |-> "",
           read |-> FileRead(sqlite3, raw, TRUE)]


\* ---------------------------------------------------------------- actions
NoUrlCall ==
  [fn |-> "none", command |-> "", params |-> <<>>, authToken |-> Null,
   items |-> <<>>, reveal |-> Undefined, url |-> <<>>]

InitUrlIdle ==
  /\ urlCall = NoUrlCall
  /\ urlText = Null
  /\ directUrls = <<>>

\* the tables the queries read
EmptyStore ==
  [TMTask |-> <<>>, TMArea |-> <<>>, TMTag |-> <<>>, TMTaskTag |-> <<>>,
   TMChecklistItem |-> <<>>]

NoFilters ==
  [list |-> Null, projectId |-> Null, areaId |-> Null, tag |-> Null,
   search |-> Null, status |-> Null, limit |-> Null]

NoDbCall == [fn |-> "none", filters |-> NoFilters, uuid |-> <<>>]

NoDbResult ==
  [kind |-> "none", todos |-> <<>>, project |-> <<>>, projects |-> <<>>,
   statements |-> <<>>, error |-> ""]

InitDbIdle ==
  /\ thingsStore = EmptyStore
  /\ db = Null
  /\ todayDays = 1
  /\ dbCall = NoDbCall
  /\ dbResult = NoDbResult
  /\ SQL = Null
  /\ tmpdir = {}
  /\ fileRead = NoFileRead

InitExec ==
  /\ xcallAvailable = Null
  /\ helperInstalled \in BOOLEAN
  /\ calls = [c \in CallIds |-> Idle]
  /\ probeCount = 0
  /\ xcallReply = NoReply
  /\ rawOutput = Render(NoReply)
  /\ parseResult = Null
  /\ InitUrlIdle
  /\ InitDbIdle

\* the overlapping calls are searches and never read the token
Init == InitExec /\ THINGS_AUTH_TOKEN = Null

InitTools == InitExec /\ THINGS_AUTH_TOKEN \in Tokens

\* executeUrl(url) up to its first suspension: isXcallAvailable() returns
\* the cached flag or starts the access() probe
StartExecute(call, url) ==
  LET started == [call EXCEPT !.url = Some(url), !.urlBuilt = @ + 1]
  IN IF xcallAvailable # Null
     THEN [started EXCEPT !.pc = "flagged", !.flag = xcallAvailable]
     ELSE [started EXCEPT !.pc = "probing"]

\* a tool handler from its call to its first suspension or its return
Handle(tool, params, q) ==
  LET base == [Idle EXCEPT !.tool = tool, !.params = params]
  IN IF tool \in ReadTools
     THEN [base EXCEPT !.pc = "done", !.outcome = ReadOutcome(tool, params, q)]
     ELSE IF NeedsToken(tool, params) /\ requireAuthTokenThrows(THINGS_AUTH_TOKEN)
     THEN [base EXCEPT !.pc = "done", !.outcome = Threw(MissingTokenMessage)]
     ELSE IF tool = "show" /\ ShowInvalid(params)
     THEN [base EXCEPT !.pc = "done",
             !.outcome = ReturnedError(<<"Either 'id' or 'query' is required for show.">>)]
     ELSE StartExecute(base, HandlerUrl(tool, params, THINGS_AUTH_TOKEN))

Invoke(c, input) ==
  /\ calls[c].pc = "idle"
  /\ \E q \in (IF input.tool \in ReadTools THEN QueryOutcomes ELSE {"rows"}) :
       calls' = [calls EXCEPT ![c] = Handle(input.tool, input.params, q)]
  /\ probeCount' = IF calls'[c].pc = "probing" THEN probeCount + 1 ELSE probeCount
  /\ UNCHANGED <<xcallAvailable, helperInstalled, THINGS_AUTH_TOKEN, parseVars, urlVars, dbVars>>

\* a client that waits for each answer before its next call
InvokeAlone(c) ==
  /\ \A d \in CallIds : calls[d].pc = "idle"
  /\ \E input \in ToolInputs : Invoke(c, input)

\* calls that overlap
InvokeOverlapping(c) == \E input \in ExecInputs : Invoke(c, input)

\* isXcallAvailable: access() settles; the flag is stored and returned
ProbeResolve(c) ==
  /\ calls[c].pc = "probing"
  /\ xcallAvailable' = Some(helperInstalled)
  /\ calls' = [calls EXCEPT ![c].pc = "flagged", ![c].flag = Some(helperInstalled)]
  /\ UNCHANGED <<helperInstalled, THINGS_AUTH_TOKEN, probeCount, parseVars, urlVars, dbVars>>

\* executeUrl after the await: spawn through the helper or through open
Dispatch(c) ==
  /\ calls[c].pc = "flagged"
  /\ calls' = [calls EXCEPT ![c].pc = "awaitExec",
                            ![c].proc = DispatchProc(calls[c].flag[1], calls[c].url[1]),
                            ![c].spawned = @ + 1]
  /\ UNCHANGED <<xcallAvailable, helperInstalled, THINGS_AUTH_TOKEN, probeCount, parseVars, urlVars, dbVars>>

Listens(proc) == proc.prog \in {"xcall", "osascript"}

ChunksOf(proc) ==
  IF proc.prog = "osascript" THEN OsaChunks ELSE StdoutChunks(proc.args[3][3])

\* proc.stdout.on("data"): stdout += data
ProcStdout(c, w) ==
  /\ calls[c][w].state = "running"
  /\ Listens(calls[c][w])
  /\ calls[c][w].outChunks + calls[c][w].errChunks < MaxChunks
  /\ \E chunk \in ChunksOf(calls[c][w]) :
       calls' = [calls EXCEPT ![c][w].stdout = @ \o chunk, ![c][w].outChunks = @ + 1]
  /\ UNCHANGED <<xcallAvailable, helperInstalled, THINGS_AUTH_TOKEN, probeCount, parseVars, urlVars, dbVars>>

\* proc.stderr.on("data"): stderr += data
ProcStderr(c, w) ==
  /\ calls[c][w].state = "running"
  /\ Listens(calls[c][w])
  /\ calls[c][w].outChunks + calls[c][w].errChunks < MaxChunks
  /\ \E chunk \in StderrChunks :
       calls' = [calls EXCEPT ![c][w].stderr = @ \o chunk, ![c][w].errChunks = @ + 1]
  /\ UNCHANGED <<xcallAvailable, helperInstalled, THINGS_AUTH_TOKEN, probeCount, parseVars, urlVars, dbVars>>

\* the promise of process w of a call after a listener ran
Settle(c, w, promise, state, code) ==
  calls' = [calls EXCEPT
              ![c][w].state = state,
              ![c][w].code = code,
              ![c][PromiseOf(w)] = promise,
              ![c].settles = IF w = "proc" /\ Changed(calls[c].exec, promise)
                             THEN @ + 1 ELSE @]

\* proc.on("error"): the launch failed, nothing was read from the process
ProcError(c, w) ==
  /\ calls[c][w].state = "running"
  /\ calls[c][w].outChunks = 0 /\ calls[c][w].errChunks = 0
  /\ Settle(c, w, OnError(calls[c][w], calls[c][PromiseOf(w)]), "errored", 0)
  /\ UNCHANGED <<xcallAvailable, helperInstalled, THINGS_AUTH_TOKEN, probeCount, parseVars, urlVars, dbVars>>

\* proc.on("close"): after an exit with some code, or after a failed launch
ProcClose(c, w) ==
  /\ calls[c][w].state \in {"running", "errored"}
  /\ \E code \in (IF calls[c][w].state = "errored" THEN {LaunchFailCode} ELSE ExitCodes) :
       Settle(c, w, OnClose(calls[c][w], calls[c][PromiseOf(w)], code), "closed", code)
  /\ UNCHANGED <<xcallAvailable, helperInstalled, THINGS_AUTH_TOKEN, probeCount, parseVars, urlVars, dbVars>>

\* the handler after `await executeUrl(url)`
AfterExecuteBody(call) ==
  LET result == call.exec.value
  IN IF call.tool = "get-version"
     THEN IF call.exec.state = "rejected"
          THEN [call EXCEPT !.pc = "done",
                  !.outcome = ReturnedError(<<"Failed to get version: ">> \o call.exec.reason)]
          ELSE IF VersionText(result) # Null
          THEN [call EXCEPT !.pc = "done", !.outcome = Returned(VersionText(result)[1])]
          ELSE [call EXCEPT !.pc = "awaitOsa", !.osa = OsaProc]
     ELSE IF call.exec.state = "rejected"
          THEN [call EXCEPT !.pc = "done", !.outcome = Threw(call.exec.reason)]
          ELSE [call EXCEPT !.pc = "done",
                  !.outcome = Returned(SuccessText(call.tool, call.params, result))]

\* a handler that falls back to open when the helper failed
AfterExecute_fallback(call) ==
  IF call.exec.state = "rejected" /\ call.proc.prog = "xcall"
  THEN [call EXCEPT !.exec = Pending, !.proc = OpenProc(call.url[1]),
                    !.spawned = @ + 1]
  ELSE AfterExecuteBody(call)

AfterExecute(call) == AfterExecuteBody(call)

Resume(c) ==
  /\ calls[c].pc = "awaitExec"
  /\ calls[c].exec.state # "pending"
  /\ calls' = [calls EXCEPT ![c] = AfterExecute(calls[c])]
  /\ UNCHANGED <<xcallAvailable, helperInstalled, THINGS_AUTH_TOKEN, probeCount, parseVars, urlVars, dbVars>>

\* get-version after `await getAppVersion()`
AfterAppVersion(call) ==
  IF call.osaP.state = "rejected"
  THEN [call EXCEPT !.pc = "done",
          !.outcome = ReturnedError(<<"Failed to get version: ">> \o call.osaP.reason)]
  ELSE [call EXCEPT !.pc = "done",
          !.outcome = Returned(<<"Things app version: ">> \o call.osaP.value
                        \o <<". Install xcall to also return URL scheme/client version fields.">>)]

ResumeAppVersion(c) ==
  /\ calls[c].pc = "awaitOsa"
  /\ calls[c].osaP.state # "pending"
  /\ calls' = [calls EXCEPT ![c] = AfterAppVersion(calls[c])]
  /\ UNCHANGED <<xcallAvailable, helperInstalled, THINGS_AUTH_TOKEN, probeCount, parseVars, urlVars, dbVars>>

\* the caller has its answer and no event of the call is outstanding
Return(c) ==
  /\ calls[c].pc = "done"
  /\ calls[c].proc.state \in {"none", "closed"}
  /\ calls[c].osa.state \in {"none", "closed"}
  /\ calls' = [calls EXCEPT ![c] = Idle]
  /\ UNCHANGED <<xcallAvailable, helperInstalled, THINGS_AUTH_TOKEN, probeCount, parseVars, urlVars, dbVars>>

\* _resetXcallCache
ResetXcallCache ==
  /\ xcallAvailable' = Null
  /\ probeCount' = 0
  /\ UNCHANGED <<helperInstalled, THINGS_AUTH_TOKEN, calls, parseVars, urlVars, dbVars>>

\* the helper is installed or removed while the server runs
ToggleHelper ==
  /\ helperInstalled' = ~helperInstalled
  /\ UNCHANGED <<xcallAvailable, THINGS_AUTH_TOKEN, calls, probeCount, parseVars, urlVars, dbVars>>

\* _parseXcallOutput on a reply of the helper
ParseReply ==
  /\ parseResult = Null
  /\ parseResult' = Some(_parseXcallOutput(rawOutput))
  /\ UNCHANGED <<execVars, xcallReply, rawOutput, urlVars, dbVars>>

ExecStep(c) ==
  \/ ProbeResolve(c)
  \/ Dispatch(c)
  \/ ProcStdout(c, "proc")
  \/ ProcStderr(c, "proc")
  \/ ProcError(c, "proc")
  \/ ProcClose(c, "proc")
  \/ Resume(c)
  \/ Return(c)

OsaStep(c) ==
  \/ ProcStdout(c, "osa")
  \/ ProcStderr(c, "osa")
  \/ ProcError(c, "osa")
  \/ ProcClose(c, "osa")
  \/ ResumeAppVersion(c)

\* overlapping executeUrl calls
Next ==
  \/ \E c \in CallIds : InvokeOverlapping(c) \/ ExecStep(c)
  \/ ToggleHelper

Spec == Init /\ [][Next]_vars

\* every tool, one call at a time
NextTools ==
  \/ \E c \in CallIds : InvokeAlone(c) \/ ExecStep(c) \/ OsaStep(c)
  \/ ResetXcallCache
  \/ ToggleHelper

SpecTools == InitTools /\ [][NextTools]_vars

\* the reply parser on every reply
InitParse ==
  /\ xcallAvailable = Null
  /\ helperInstalled = TRUE
  /\ THINGS_AUTH_TOKEN = Null
  /\ calls = [c \in CallIds |-> Idle]
  /\ probeCount = 0
  /\ xcallReply \in Replies
  /\ rawOutput = Render(xcallReply)
  /\ parseResult = Null
  /\ InitUrlIdle
  /\ InitDbIdle

NextParse == ParseReply

SpecParse == InitParse /\ [][NextParse]_vars

\* ------------------------------------------------ the URL functions alone
MaxParams == 2
MaxItems == 2
MaxUrlLen == 4
MaxApply == 2

UrlCommands == {"add", "show"}
UrlKeys == {<<"title">>, <<"notes">>, <<"completed">>}
UrlValues ==
  {Undefined, Str(<<>>), Str(<<"x">>), Str(<<"a", "&", "b", "=", "c">>),
   Bool(TRUE), Bool(FALSE)}
UrlTokens == Tokens \cup {Some(<<"t", "&", "k">>)}

\* the entries of a parameter mapping: distinct keys, in iteration order
ParamMappings ==
  {ps \in SeqsUpTo(UrlKeys \X UrlValues, MaxParams) :
     \A i, j \in 1..Len(ps) : i # j => ps[i][1] # ps[j][1]}

NestedItem ==
  JObj(<< <<<<"type">>, JStr(<<"project">>)>>,
          <<<<"attributes">>,
            JObj(<< <<<<"title">>, JStr(<<"a", " ", "&", Quote, "b">>)>>,
                    <<<<"tags">>, JArr(<<JStr(<<"t1">>), JNull>>)>>,
                    <<<<"completed">>, JBool(<<"false">>)>>,
                    <<<<"n">>, JNum(<<"1", "2">>)>> >>)>> >>)

JsonItems == SeqsUpTo({CreateItem, UpdateItem, NestedItem}, MaxItems)

\* URL strings as a caller may write them
UrlAlphabet == {"things:///", "x-callback-url/", "add", "?", "title=x"}
GivenUrls == SeqsUpTo(UrlAlphabet, MaxUrlLen)

UrlCalls ==
  {[NoUrlCall EXCEPT !.fn = "buildUrl", !.command = x[1], !.params = x[2],
                     !.authToken = x[3]] :
     x \in UrlCommands \X ParamMappings \X UrlTokens}
  \cup {[NoUrlCall EXCEPT !.fn = "buildJsonUrl", !.items = x[1],
                          !.authToken = x[2], !.reveal = x[3]] :
          x \in JsonItems \X UrlTokens \X {Undefined, Bool(TRUE), Bool(FALSE)}}
  \cup {[NoUrlCall EXCEPT !.fn = "toDirectUrl", !.url = u] : u \in GivenUrls}

InitUrl ==
  /\ xcallAvailable = Null
  /\ helperInstalled = TRUE
  /\ THINGS_AUTH_TOKEN = Null
  /\ calls = [c \in CallIds |-> Idle]
  /\ probeCount = 0
  /\ xcallReply = NoReply
  /\ rawOutput = Render(NoReply)
  /\ parseResult = Null
  /\ urlCall \in UrlCalls
  /\ urlText = Null
  /\ directUrls = <<>>
  /\ InitDbIdle

BuildUrl ==
  /\ urlCall.fn = "buildUrl"
  /\ urlText = Null
  /\ urlText' = Some(buildUrl(urlCall.command, urlCall.params, urlCall.authToken))
  /\ UNCHANGED <<execVars, parseVars, dbVars, urlCall, directUrls>>

BuildJsonUrl ==
  /\ urlCall.fn = "buildJsonUrl"
  /\ urlText = Null
  /\ urlText' = Some(buildJsonUrl(urlCall.items, urlCall.authToken, urlCall.reveal))
  /\ UNCHANGED <<execVars, parseVars, dbVars, urlCall, directUrls>>

\* the URL toDirectUrl is first applied to
SourceUrl == IF urlCall.fn = "toDirectUrl" THEN urlCall.url ELSE urlText[1]

\* toDirectUrl on the source URL, then on its own result
ToDirectUrl ==
  /\ urlCall.fn = "toDirectUrl" \/ urlText # Null
  /\ Len(directUrls) < MaxApply
  /\ directUrls' = Append(directUrls,
       toDirectUrl(IF directUrls = <<>> THEN SourceUrl
                   ELSE directUrls[Len(directUrls)]))
  /\ UNCHANGED <<execVars, parseVars, dbVars, urlCall, urlText>>

NextUrl == BuildUrl \/ BuildJsonUrl \/ ToDirectUrl

SpecUrl == InitUrl /\ [][NextUrl]_vars

\* ------------------------------------------------- the query functions alone
MaxDay == 2
MaxTodayIndex == 1

SeedAreas ==
  <<AreaRow(<<"a1">>, <<"W", "o", "r", "k">>), AreaRow(<<"a2">>, <<"H", "o", "m", "e">>)>>

SeedTags ==
  <<TagRow(<<"tag-urgent">>, <<"urgent">>), TagRow(<<"tag-errand">>, <<"errand">>)>>

\* a project in area a2, a heading of it, and a to-do under that heading
\* with no area of its own
SeedTasks ==
  <<[TaskRow EXCEPT !.uuid = <<"p1">>, !.title = <<"P", "l", "a", "n">>, !.type = 1,
                    !.start = Some(1), !.area = Some(<<"a2">>), !.creationDate = 3],
    [TaskRow EXCEPT !.uuid = <<"h1">>, !.title = <<"P", "h", "a", "s", "e">>, !.type = 2,
                    !.project = Some(<<"p1">>)],
    [TaskRow EXCEPT !.uuid = <<"s1">>, !.title = <<"t", "e", "a">>, !.start = Some(1),
                    !.project = Some(<<"p1">>), !.heading = Some(<<"h1">>),
                    !.creationDate = 5, !.index = 1]>>

SeedChecklist ==
  <<[uuid |-> <<"c1">>, title |-> <<"c", "u", "p">>, status |-> 3, task |-> <<"s1">>,
     index |-> 0]>>

Days == 0..MaxDay

\* one more TMTask row, of every kind
TodoProbes ==
  {[TaskRow EXCEPT !.uuid = <<"t1">>, !.title = <<"m", "i", "l", "k">>,
                   !.trashed = x[1], !.status = x[2], !.start = Some(x[3]),
                   !.startDate = x[4], !.todayIndex = x[5],
                   !.project = x[6], !.area = x[7],
                   !.stopDate = IF x[2] = 0 THEN Null ELSE Some(20),
                   !.creationDate = 9] :
     x \in {0, 1} \X {0, 2, 3} \X {0, 1, 2}
           \X ({Null} \cup {Some(d) : d \in Days}) \X (0..MaxTodayIndex)
           \X {Null, Some(<<"p1">>)} \X {Null, Some(<<"a1">>)}}

OtherProbes ==
  {[TaskRow EXCEPT !.uuid = <<"t1">>, !.title = <<"m", "i", "l", "k">>,
                   !.type = x[1], !.trashed = x[2], !.status = x[3],
                   !.project = Some(<<"p1">>)] :
     x \in {1, 2} \X {0, 1} \X {0, 3}}

\* a to-do row whose status code is none of 0, 2, 3
StatusProbes ==
  {[TaskRow EXCEPT !.uuid = <<"t1">>, !.title = <<"m", "i", "l", "k">>,
                   !.status = 1, !.trashed = x, !.creationDate = 9] :
     x \in {0, 1}}

\* two more rows, both to-dos or both projects, that differ in today
\* position, creation time, status and completion time
PairProbes ==
  {<<[TaskRow EXCEPT !.uuid = <<"t1">>, !.title = <<"m", "i", "l", "k">>,
                     !.type = x[1], !.start = Some(1), !.todayIndex = x[2],
                     !.creationDate = 9, !.status = x[5][1],
                     !.stopDate = IF x[5][1] = 3 THEN Some(20) ELSE Null,
                     !.project = IF x[1] = 0 THEN x[7] ELSE Null],
     [TaskRow EXCEPT !.uuid = <<"t2">>, !.title = <<"j", "a", "m">>,
                     !.type = x[1], !.start = Some(1), !.todayIndex = x[3],
                     !.creationDate = x[4], !.status = x[5][2],
                     !.stopDate = IF x[5][2] = 3 THEN x[6] ELSE Null,
                     !.project = IF x[1] = 0 THEN x[7] ELSE Null]>> :
     x \in {y \in {0, 1} \X (0..MaxTodayIndex) \X (0..MaxTodayIndex) \X {7, 9, 11}
                   \X {<<0, 0>>, <<0, 3>>, <<3, 3>>}
                   \X {Null, Some(10), Some(20), Some(30)}
                   \X {Null, Some(<<"p1">>)} :
              /\ y[5] # <<3, 3>> => y[6] = Some(10)
              /\ y[1] = 1 => y[5] = <<0, 0>> /\ y[7] = Null}}

StoreOf(rows, tagged) ==
  [TMTask |-> SeedTasks \o rows,
   TMArea |-> SeedAreas,
   TMTag |-> SeedTags,
   TMTaskTag |-> <<TaskTagRow(<<"s1">>, <<"tag-errand">>)>> \o tagged,
   TMChecklistItem |-> SeedChecklist]

Stores ==
  {StoreOf(<<row>>, <<>>) : row \in TodoProbes \cup OtherProbes}
  \cup {StoreOf(<<row>>, <<TaskTagRow(<<"t1">>, <<"tag-urgent">>)>>) :
          row \in {r \in TodoProbes : r.startDate = Null /\ r.todayIndex = 0}
                  \cup OtherProbes}
  \cup {StoreOf(<<row>>, <<>>) : row \in StatusProbes}
  \cup {StoreOf(rows, <<>>) : rows \in PairProbes}

Lists ==
  {<<"inbox">>, <<"today">>, <<"anytime">>, <<"someday">>, <<"upcoming">>,
   <<"logbook">>, <<"trash">>}

StatusNames == {<<"open">>, <<"completed">>, <<"canceled">>}

\* the filters other than list and status
OtherFilters ==
  {NoFilters,
   [NoFilters EXCEPT !.projectId = Some(<<"p1">>)],
   [NoFilters EXCEPT !.areaId = Some(<<"a1">>)],
   [NoFilters EXCEPT !.areaId = Some(<<"a2">>)],
   [NoFilters EXCEPT !.projectId = Some(<<"p1">>), !.areaId = Some(<<"a2">>)],
   [NoFilters EXCEPT !.tag = Some(<<"urgent">>)],
   [NoFilters EXCEPT !.search = Some(<<"m">>)],
   [NoFilters EXCEPT !.limit = Some(1)]}

\* z.number(): the tools pass on any number
Limits == {-1, 0, 2}

\* every list with every status, and each of the two with every other filter
FilterSets ==
  {[x[3] EXCEPT !.list = x[1], !.status = x[2]] :
     x \in {y \in ({Null} \cup {Some(l) : l \in Lists})
                   \X ({Null} \cup {Some(s) : s \in StatusNames})
                   \X OtherFilters :
              y[1] = Null \/ y[2] = Null \/ y[3] = NoFilters}}
  \cup {[x[1] EXCEPT !.limit = Some(x[2])] :
          x \in {NoFilters,
                 [NoFilters EXCEPT !.list = Some(<<"today">>)],
                 [NoFilters EXCEPT !.status = Some(<<"open">>)],
                 [NoFilters EXCEPT !.projectId = Some(<<"p1">>)]} \X Limits}

\* ProjectFilters: status, areaId, search and limit
ProjectFilterSets ==
  {[NoFilters EXCEPT !.status = x[1], !.areaId = x[2], !.search = x[3],
                     !.limit = x[4]] :
     x \in {y \in {Null, Some(<<"open">>), Some(<<"completed">>)}
                   \X {Null, Some(<<"a2">>)}
                   \X {Null, Some(<<"P">>)}
                   \X ({Null, Some(1)} \cup {Some(n) : n \in Limits}) :
              y[3] = Null \/ y[4] = Null}}

QueryIds == {<<"t1">>, <<"t2">>, <<"s1">>, <<"p1">>, <<"h1">>, <<"none">>}

InitDb ==
  /\ xcallAvailable = Null
  /\ helperInstalled = TRUE
  /\ THINGS_AUTH_TOKEN = Null
  /\ calls = [c \in CallIds |-> Idle]
  /\ probeCount = 0
  /\ xcallReply = NoReply
  /\ rawOutput = Render(NoReply)
  /\ parseResult = Null
  /\ InitUrlIdle
  /\ thingsStore \in Stores
  /\ db = Null
  /\ todayDays = 1
  /\ dbCall = NoDbCall
  /\ dbResult = NoDbResult
  /\ SQL = SqlJsStatic
  /\ tmpdir = {}
  /\ fileRead = NoFileRead

QueryTodos ==
  /\ dbResult.kind = "none"
  /\ \E filters \in FilterSets :
       /\ dbCall' = [NoDbCall EXCEPT !.fn = "queryTodos", !.filters = filters]
       /\ db' = getDb(db, thingsStore)
       /\ dbResult' = [NoDbResult EXCEPT !.kind = "todos",
                         !.todos = queryTodos(db'[1], filters, todayDays),
                         !.statements =
                            queryTodosStatements(db'[1], filters, todayDays)]
  /\ UNCHANGED <<execVars, parseVars, urlVars, thingsStore, todayDays, hostVars>>

QueryProjects ==
  /\ dbResult.kind = "none"
  /\ \E filters \in ProjectFilterSets :
       /\ dbCall' = [NoDbCall EXCEPT !.fn = "queryProjects", !.filters = filters]
       /\ db' = getDb(db, thingsStore)
       /\ dbResult' = [NoDbResult EXCEPT !.kind = "projects",
                         !.projects = queryProjects(db'[1], filters),
                         !.statements = queryProjectsStatements(db'[1], filters)]
  /\ UNCHANGED <<execVars, parseVars, urlVars, thingsStore, todayDays, hostVars>>

QueryTodoById ==
  /\ dbResult.kind = "none"
  /\ \E uuid \in QueryIds :
       /\ dbCall' = [NoDbCall EXCEPT !.fn = "queryTodoById", !.uuid = uuid]
       /\ db' = getDb(db, thingsStore)
       /\ dbResult' = LET todo == queryTodoById(db'[1], uuid)
                      IN IF todo = Null THEN [NoDbResult EXCEPT !.kind = "null"]
                         ELSE [NoDbResult EXCEPT !.kind = "todo", !.todos = todo]
  /\ UNCHANGED <<execVars, parseVars, urlVars, thingsStore, todayDays, hostVars>>

QueryProjectById ==
  /\ dbResult.kind = "none"
  /\ \E uuid \in QueryIds :
       /\ dbCall' = [NoDbCall EXCEPT !.fn = "queryProjectById", !.uuid = uuid]
       /\ db' = getDb(db, thingsStore)
       /\ dbResult' = LET project == queryProjectById(db'[1], uuid)
                      IN IF project = Null THEN [NoDbResult EXCEPT !.kind = "null"]
                         ELSE [NoDbResult EXCEPT !.kind = "project", !.project = project]
  /\ UNCHANGED <<execVars, parseVars, urlVars, thingsStore, todayDays, hostVars>>

\* the caller is done with the result; the adapter stays
DropResult ==
  /\ dbResult.kind # "none"
  /\ dbCall' = NoDbCall
  /\ dbResult' = NoDbResult
  /\ UNCHANGED <<execVars, parseVars, urlVars, thingsStore, db, todayDays, hostVars>>

NextDb ==
  QueryTodos \/ QueryProjects \/ QueryTodoById \/ QueryProjectById \/ DropResult

SpecDb == InitDb /\ [][NextDb]_vars

\* ------------------------------------------- the read tools in one process
\* the database file as the Things application leaves it at different times
ServerStores ==
  {StoreOf(<<>>, <<>>),
   StoreOf(<<[TaskRow EXCEPT !.uuid = <<"t1">>, !.title = <<"m", "i", "l", "k">>,
                             !.creationDate = 9]>>, <<>>),
   StoreOf(<<[TaskRow EXCEPT !.uuid = <<"t1">>, !.title = <<"m", "i", "l", "k">>,
                             !.creationDate = 9, !.status = 3,
                             !.stopDate = Some(20)]>>, <<>>)}

ServerFilters ==
  {NoFilters,
   [NoFilters EXCEPT !.status = Some(<<"open">>)],
   [NoFilters EXCEPT !.list = Some(<<"logbook">>)]}

\* index.ts never calls initSql(); a process that awaited it first, as the
\* tests do, has the engine
InitServer ==
  /\ xcallAvailable = Null
  /\ helperInstalled = TRUE
  /\ THINGS_AUTH_TOKEN = Null
  /\ calls = [c \in CallIds |-> Idle]
  /\ probeCount = 0
  /\ xcallReply = NoReply
  /\ rawOutput = Render(NoReply)
  /\ parseResult = Null
  /\ InitUrlIdle
  /\ thingsStore \in ServerStores
  /\ db = Null
  /\ todayDays = 1
  /\ dbCall = NoDbCall
  /\ dbResult = NoDbResult
  /\ SQL \in {Null, SqlJsStatic}
  /\ tmpdir = {}
  /\ fileRead = NoFileRead

\* what a read tool's catch makes of a throw in getDb
ReadError(error) == [NoDbResult EXCEPT !.kind = "error", !.error = error]

\* the get-todos tool: queryTodos inside try/catch
GetTodos ==
  /\ dbResult.kind = "none"
  /\ \E filters \in ServerFilters, found \in BOOLEAN,
        sqlite3 \in Sqlite3Outcomes, raw \in RawReadOutcomes :
       LET got == GetDbOutcome(db, SQL, found, thingsStore, tmpdir, sqlite3, raw)
       IN /\ dbCall' = [NoDbCall EXCEPT !.fn = "queryTodos", !.filters = filters]
          /\ db' = got.db
          /\ tmpdir' = got.tmp
          /\ fileRead' = got.read
          /\ dbResult' =
               IF got.error # "" THEN ReadError(got.error)
               ELSE [NoDbResult EXCEPT !.kind = "todos",
                       !.todos = queryTodos(got.db[1], filters, todayDays),
                       !.statements =
                          queryTodosStatements(got.db[1], filters, todayDays)]
  /\ UNCHANGED <<execVars, parseVars, urlVars, thingsStore, todayDays, SQL>>

\* the get-projects tool: queryProjects inside try/catch
GetProjects ==
  /\ dbResult.kind = "none"
  /\ \E found \in BOOLEAN, sqlite3 \in Sqlite3Outcomes, raw \in RawReadOutcomes :
       LET got == GetDbOutcome(db, SQL, found, thingsStore, tmpdir, sqlite3, raw)
       IN /\ dbCall' = [NoDbCall EXCEPT !.fn = "queryProjects"]
          /\ db' = got.db
          /\ tmpdir' = got.tmp
          /\ fileRead' = got.read
          /\ dbResult' =
               IF got.error # "" THEN ReadError(got.error)
               ELSE [NoDbResult EXCEPT !.kind = "projects",
                       !.projects = queryProjects(got.db[1], NoFilters),
                       !.statements = queryProjectsStatements(got.db[1], NoFilters)]
  /\ UNCHANGED <<execVars, parseVars, urlVars, thingsStore, todayDays, SQL>>

\* between two calls the Things application rewrites its database
ExternalChange ==
  /\ dbResult.kind = "none"
  /\ thingsStore' \in ServerStores \ {thingsStore}
  /\ UNCHANGED <<execVars, parseVars, urlVars, db, todayDays, dbCall, dbResult,
                 hostVars>>

NextServer == GetTodos \/ GetProjects \/ ExternalChange \/ DropResult

SpecServer == InitServer /\ [][NextServer]_vars

\* ----------------------------------------------------------------- claims
\* C1: with no cache reset in between, the file system probe for the helper
\* is performed at most once, also when first calls overlap.
C1_ProbedOnce == probeCount <= 1

\* C2: a call whose flag is true spawns the helper with the URL unchanged and
\* -activateApp NO; a call whose flag is false spawns open with the URL in
\* direct form; never the other way round.
C2_DispatchFollowsFlag ==
  \A c \in CallIds :
    LET k == calls[c]
    IN k.proc.state # "none" =>
         /\ k.flag # Null /\ k.url # Null
         /\ SubSeq(k.url[1], 1, 2) = <<"things:///", "x-callback-url/">>
         /\ k.flag = Some(TRUE) =>
              /\ k.proc.prog = "xcall"
              /\ k.proc.args = << <<XcallPath>>, <<"-url">>, k.url[1],
                                  <<"-activateApp">>, <<"NO">> >>
         /\ k.flag = Some(FALSE) =>
              /\ k.proc.prog = "open"
              /\ k.proc.args = << <<"open">>,
                                  <<"things:///">> \o SubSeq(k.url[1], 3, Len(k.url[1])) >>

C2_Witness ==
  \E c, d \in CallIds :
    /\ calls[c].flag = Some(TRUE) /\ calls[c].proc.prog = "xcall"
    /\ calls[d].flag = Some(FALSE) /\ calls[d].proc.prog = "open"

\* C3: a call spawns one process, its promise settles once, when the process
\* has exited or failed to launch, as resolved or rejected, and no second
\* process is spawned after a failure.
C3_OneSpawnOneOutcome ==
  \A c \in CallIds :
    LET k == calls[c]
    IN /\ k.spawned <= 1 /\ k.settles <= 1
       /\ k.proc.state \in {"errored", "closed"} =>
            /\ k.exec.state \in {"resolved", "rejected"}
            /\ k.settles = 1 /\ k.spawned = 1
       /\ k.exec.state # "pending" => k.proc.state \in {"errored", "closed"}
       /\ (k.pc = "done" /\ k.urlBuilt > 0) =>
            /\ k.spawned = 1 /\ k.settles = 1
            /\ k.exec.state = "resolved" => k.outcome.kind = "returned"
            /\ k.exec.state = "rejected" => k.outcome = Threw(k.exec.reason)

C3_Witness ==
  \E c \in CallIds :
    /\ calls[c].pc = "done"
    /\ calls[c].exec.state = "rejected"
    /\ calls[c].proc.prog = "xcall"
    /\ calls[c].proc.state = "closed"
    /\ calls[c].proc.code = LaunchFailCode
    /\ calls[c].spawned = 1

\* C4: a process that closes with a non-zero code makes its call fail, whatever
\* it wrote to standard output; on the helper path the reason holds the
\* trimmed text of the error stream.
C4_NonZeroExitFails ==
  \A c \in CallIds :
    LET k == calls[c]
    IN (k.proc.state = "closed" /\ k.proc.code # 0) =>
         /\ k.exec.state = "rejected"
         /\ k.proc.prog = "xcall" =>
              Includes(k.exec.reason, Trim(k.proc.stderr))
         /\ (k.proc.prog = "xcall" /\ k.proc.code \in ExitCodes) =>
              k.exec.reason = <<"xcall failed (code ", CodeText(k.proc.code), "): ">>
                                \o Trim(k.proc.stderr)

C4_Witness ==
  \E c \in CallIds :
    /\ calls[c].proc.prog = "xcall"
    /\ calls[c].proc.state = "closed"
    /\ calls[c].proc.code = 1
    /\ calls[c].proc.stderr = <<"boom", "\n">>
    /\ calls[c].exec.reason = <<"xcall failed (code ", "1", "): ", "boom">>

\* C5: a success of the plain dispatch path has no identifier and no
\* response fields, for every command.
C5_OpenSuccessIsBare ==
  \A c \in CallIds :
    LET k == calls[c]
    IN (k.flag = Some(FALSE) /\ k.exec.state = "resolved") =>
         /\ k.exec.value.success
         /\ k.exec.value.thingsId = Null
         /\ k.exec.value.callbackParams = Null

C5_Witness ==
  \E c \in CallIds :
    /\ calls[c].tool = "add-json"
    /\ calls[c].flag = Some(FALSE)
    /\ calls[c].proc.prog = "open"
    /\ calls[c].exec.state = "resolved"
    /\ calls[c].pc = "done"

\* the members of a reply that the parsed object keeps: the last of each key
Kept(members) ==
  {i \in 1..Len(members) :
     \A j \in (i + 1)..Len(members) : members[j].key # members[i].key}

KeptWithKey(members, key) == {i \in Kept(members) : members[i].key = key}

\* C6 as stated: the response fields hold the string form of every member
\* value, and the identifier is x-things-id when that member is present,
\* otherwise x-things-ids.
C6_AllMembersAsStated ==
  (parseResult # Null /\ xcallReply.shape = "object") =>
    LET r == parseResult[1]
        ms == xcallReply.members
        ids == KeptWithKey(ms, <<"x-things-id">>)
        idss == KeptWithKey(ms, <<"x-things-ids">>)
    IN /\ r.success
       /\ r.callbackParams # Null
       /\ \A i \in Kept(ms) :
            /\ HasKey(r.callbackParams[1], ms[i].key)
            /\ Get(r.callbackParams[1], ms[i].key) = ms[i].value.str
       /\ r.thingsId =
            IF ids # {} THEN Some(ms[CHOOSE i \in ids : TRUE].value.str)
            ELSE IF idss # {} THEN Some(ms[CHOOSE i \in idss : TRUE].value.str)
            ELSE Null

\* C6: the response fields hold the string form of every member value that
\* is not null and nothing else; the identifier is x-things-id when that
\* member is present and not null, otherwise x-things-ids when that member is
\* present and not null, otherwise there is none.
C6_NonNullMembers ==
  (parseResult # Null /\ xcallReply.shape = "object") =>
    LET r == parseResult[1]
        ms == xcallReply.members
        kept == {i \in Kept(ms) : ~ms[i].value.isNull}
        ids == {i \in kept : ms[i].key = <<"x-things-id">>}
        idss == {i \in kept : ms[i].key = <<"x-things-ids">>}
    IN /\ r.success
       /\ r.callbackParams # Null
       /\ Keys(r.callbackParams[1]) = {ms[i].key : i \in kept}
       /\ \A i \in kept : Get(r.callbackParams[1], ms[i].key) = ms[i].value.str
       /\ r.thingsId =
            IF ids # {} THEN Some(ms[CHOOSE i \in ids : TRUE].value.str)
            ELSE IF idss # {} THEN Some(ms[CHOOSE i \in idss : TRUE].value.str)
            ELSE Null

C6_Witness ==
  /\ parseResult # Null
  /\ xcallReply.shape = "object"
  /\ Len(xcallReply.members) = 2
  /\ xcallReply.members[1].key = <<"x-things-id">>
  /\ xcallReply.members[1].value.isNull
  /\ xcallReply.members[2].key = <<"x-things-ids">>
  /\ xcallReply.members[2].value.str = <<"a", ",", "b">>
  /\ parseResult[1].thingsId = Some(<<"a", ",", "b">>)

\* C7: a reply that is not JSON gives a success whose identifier is the
\* trimmed reply and no response fields; an empty or blank reply gives a
\* success with neither.
C7_RawFallback ==
  parseResult # Null =>
    LET r == parseResult[1]
        body == Body(xcallReply)
    IN /\ r.success
       /\ xcallReply.shape = "empty" =>
            r.thingsId = Null /\ r.callbackParams = Null
       /\ (body # <<>> /\ ~JSONParse(body).ok) =>
            r.thingsId = Some(body) /\ r.callbackParams = Null
       /\ xcallReply.shape \in {"bare", "truncated"} => ~JSONParse(body).ok

C7_Witness ==
  /\ parseResult # Null
  /\ xcallReply.shape = "truncated"
  /\ xcallReply.pad
  /\ Len(rawOutput) > Len(Body(xcallReply))
  /\ parseResult[1].thingsId = Some(Body(xcallReply))

\* an update-class call: update-todo, update-project, or add-json with an
\* item whose operation is "update"
UpdateClass(k) ==
  \/ k.tool \in {"update-todo", "update-project"}
  \/ /\ k.tool = "add-json"
     /\ \E i \in 1..Len(k.params.items) :
          \E j \in 1..Len(k.params.items[i].a) :
            /\ k.params.items[i].a[j][1] = <<"operation">>
            /\ k.params.items[i].a[j][2].s = <<"update">>

TokenMissing == THINGS_AUTH_TOKEN = Null \/ THINGS_AUTH_TOKEN = Some(<<>>)

\* C8: with the token unset or empty, an update-class call fails with the
\* remediation message, with no URL built and no process spawned.
C8_UpdateNeedsToken ==
  \A c \in CallIds :
    LET k == calls[c]
    IN (TokenMissing /\ k.pc # "idle" /\ UpdateClass(k)) =>
         /\ k.pc = "done"
         /\ k.outcome = Threw(MissingTokenMessage)
         /\ k.urlBuilt = 0 /\ k.url = Null
         /\ k.spawned = 0 /\ k.proc.state = "none" /\ k.osa.state = "none"

C8_Witness ==
  \E c \in CallIds :
    /\ THINGS_AUTH_TOKEN = Null
    /\ calls[c].tool = "add-json"
    /\ Len(calls[c].params.items) = 2
    /\ calls[c].outcome = Threw(MissingTokenMessage)

\* C9: with the token unset or empty, only update-class calls give the
\* missing-credential failure; creation, navigation and read calls never do.
C9_OnlyUpdatesNeedToken ==
  \A c \in CallIds :
    LET k == calls[c]
    IN (TokenMissing /\ k.pc # "idle" /\ ~UpdateClass(k)) =>
         /\ ~Includes(k.outcome.text, MissingTokenMessage)
         /\ (k.tool \in WriteTools /\ k.tool # "show") => k.urlBuilt = 1

C9_Witness ==
  \E c \in CallIds :
    /\ THINGS_AUTH_TOKEN = Null
    /\ calls[c].tool = "add-json"
    /\ Len(calls[c].params.items) = 1
    /\ calls[c].pc = "done"
    /\ calls[c].outcome.kind = "returned"
    /\ ~calls[c].outcome.isError
    /\ calls[c].spawned = 1

\* the command of the URL a process was given
CommandOf(proc) ==
  IF proc.prog = "xcall" THEN proc.args[3][3] ELSE proc.args[2][2]

ShowError == ReturnedError(<<"Either 'id' or 'query' is required for show.">>)

\* C10 as stated: show with neither id nor query supplied gives a validation
\* error and no side effect; with at least one supplied it dispatches exactly
\* one show command.
C10_SuppliedAsStated ==
  \A c \in CallIds :
    LET k == calls[c]
        supplied == P(k.params, "id").t # "undefined"
                      \/ P(k.params, "query").t # "undefined"
    IN (k.tool = "show" /\ k.pc = "done") =>
         IF supplied
         THEN k.spawned = 1 /\ CommandOf(k.proc) = "show"
         ELSE k.outcome = ShowError /\ k.urlBuilt = 0 /\ k.spawned = 0

\* C10: show with neither a non-empty id nor a non-empty query gives a
\* validation error, builds no URL and spawns no process; with at least one
\* of the two non-empty it dispatches exactly one show command.
C10_NonEmptyRequired ==
  \A c \in CallIds :
    LET k == calls[c]
        given == P(k.params, "id").s # <<>> \/ P(k.params, "query").s # <<>>
    IN k.tool = "show" =>
         /\ k.spawned <= 1
         /\ k.pc = "done" =>
              IF given
              THEN /\ k.spawned = 1 /\ k.urlBuilt = 1
                   /\ CommandOf(k.proc) = "show"
                   /\ k.outcome # ShowError
              ELSE /\ k.outcome = ShowError
                   /\ k.urlBuilt = 0 /\ k.url = Null
                   /\ k.spawned = 0 /\ k.proc.state = "none"

C10_Witness ==
  \E c \in CallIds :
    /\ calls[c].tool = "show"
    /\ calls[c].pc = "done"
    /\ calls[c].params.id = Str(<<>>)
    /\ calls[c].params.query = Undefined
    /\ calls[c].outcome = ShowError
    /\ calls[c].spawned = 0

\* a failure happened inside the invocation: the credential was required and
\* missing, or an awaited external process failed
FailedInside(k) ==
  \/ k.exec.state = "rejected"
  \/ k.osaP.state = "rejected"
  \/ UpdateClass(k) /\ TokenMissing

\* C11: every failure inside a tool invocation reaches the caller as a
\* structured error outcome returned by the handler, never as a rejection
\* that escapes the handler, and the failed step is not run again.
C11_FailuresAreStructured ==
  \A c \in CallIds :
    LET k == calls[c]
    IN /\ k.outcome.kind # "threw"
       /\ (k.pc = "done" /\ FailedInside(k)) =>
            /\ k.outcome.kind = "returned" /\ k.outcome.isError
            /\ k.spawned <= 1

\* the pieces of s between the occurrences of the symbol sep
RECURSIVE SplitOn(_, _)
SplitOn(s, sep) ==
  IF \A i \in 1..Len(s) : s[i] # sep THEN <<s>>
  ELSE LET n == Min({i \in 1..Len(s) : s[i] = sep})
       IN <<SubSeq(s, 1, n - 1)>> \o SplitOn(SubSeq(s, n + 1, Len(s)), sep)

HasQuery(url) == \E i \in 1..Len(url) : url[i] = "?"

\* the key=value pairs of a URL's query, in order
QueryPairs(url) ==
  IF HasQuery(url)
  THEN LET n == Min({i \in 1..Len(url) : url[i] = "?"})
       IN SplitOn(SubSeq(url, n + 1, Len(url)), "&")
  ELSE <<>>

DefinedEntries(params) == SelectSeq(params, LAMBDA e : e[2].t # "undefined")

ValueText(v) ==
  IF v.t = "boolean" THEN <<IF v.b THEN "true" ELSE "false">> ELSE encode(v.s)

\* C12: buildUrl emits one key=value pair per entry whose value is defined,
\* in mapping order, `key=` for an empty string and true/false for a boolean,
\* and nothing for an undefined value; with no defined value and no
\* credential the result is the command-only URL, without `?`.
C12_DefinedParamsEmitted ==
  (urlCall.fn = "buildUrl" /\ urlText # Null) =>
    LET url == urlText[1]
        defined == DefinedEntries(urlCall.params)
        pairs == QueryPairs(url)
        own == IF Truthy(urlCall.authToken) /\ pairs # <<>> THEN Tail(pairs) ELSE pairs
    IN /\ SubSeq(url, 1, 3) = CallbackPrefix \o <<urlCall.command>>
       /\ Len(own) = Len(defined)
       /\ \A i \in 1..Len(defined) :
            own[i] = encode(defined[i][1]) \o <<"=">> \o ValueText(defined[i][2])
       /\ (defined = <<>> /\ ~Truthy(urlCall.authToken)) =>
            /\ url = CallbackPrefix \o <<urlCall.command>>
            /\ ~HasQuery(url)

C12_Witness ==
  /\ urlCall.fn = "buildUrl"
  /\ urlCall.authToken = Null
  /\ urlCall.params = << <<<<"title">>, Str(<<>>)>>, <<<<"completed">>, Bool(FALSE)>> >>
  /\ urlText = Some(<<"things:///", "x-callback-url/", "add", "?",
                      "title", "=", "&", "completed", "=", "false">>)

AuthPair(token) == <<"auth-token", "=">> \o encode(token)

IsAuthPair(pair) == pair # <<>> /\ pair[1] = "auth-token"

IsCallbackForm(url) == Len(url) >= 2 /\ SubSeq(url, 1, 2) = CallbackPrefix

IsDirectForm(url) == url # <<>> /\ url[1] = "things:///" /\ ~IsCallbackForm(url)

\* what the claim says of toDirectUrl applied to source and then to its
\* own results
DirectFormLaws(source, results) ==
  /\ \A i \in 2..Len(results) : results[i] = results[1]
  /\ \A i \in 1..Len(results) :
       LET x == IF i = 1 THEN source ELSE results[i - 1]
       IN /\ IsDirectForm(x) => results[i] = x
          /\ IsCallbackForm(x) =>
               results[i] = DirectPrefix \o SubSeq(x, 3, Len(x))

\* C14 as stated: for every URL string, toDirectUrl is idempotent, is a
\* no-op on a URL in direct form, and on a callback-form URL removes only the
\* callback path segment.
C14_IdempotentOnEveryString ==
  (urlCall.fn = "toDirectUrl" \/ urlText # Null) =>
    DirectFormLaws(SourceUrl, directUrls)

\* C14: on every URL built by buildUrl or buildJsonUrl, toDirectUrl removes
\* only the callback path segment, keeping the command and the query, and
\* applied again to its result it changes nothing.
C14_IdempotentOnBuiltUrls ==
  (urlCall.fn \in {"buildUrl", "buildJsonUrl"} /\ urlText # Null) =>
    /\ IsCallbackForm(urlText[1])
    /\ DirectFormLaws(urlText[1], directUrls)
    /\ \A i \in 1..Len(directUrls) :
         /\ IsDirectForm(directUrls[i])
         /\ QueryPairs(directUrls[i]) = QueryPairs(urlText[1])
         /\ directUrls[i][2] = urlText[1][3]

C14_Witness ==
  /\ urlCall.fn = "buildUrl"
  /\ urlText = Some(<<"things:///", "x-callback-url/", "add", "?", "title", "=", "x">>)
  /\ directUrls = << <<"things:///", "add", "?", "title", "=", "x">>,
                     <<"things:///", "add", "?", "title", "=", "x">> >>

\* percent-decoding, symbol by symbol
DecodeChar(c) ==
  CASE c = "%20" -> " "
    [] c = "%0A" -> "\n"
    [] c = "%26" -> "&"
    [] c = "%2C" -> ","
    [] c = "%3A" -> ":"
    [] c = "%40" -> "@"
    [] c = "%3D" -> "="
    [] c = "%3F" -> "?"
    [] c = "%2F" -> "/"
    [] c = "%22" -> Quote
    [] c = "%7B" -> "{"
    [] c = "%7D" -> "}"
    [] c = "%5B" -> "["
    [] c = "%5D" -> "]"
    [] c = "%5C%22" -> EscQuote
    [] c = "%5Cn" -> EscNewline
    [] OTHER -> c

decodeURIComponent(s) == [i \in 1..Len(s) |-> DecodeChar(s[i])]

PairKey(pair) == IF pair = <<>> THEN "" ELSE pair[1]

PairsWithKey(pairs, key) == {i \in 1..Len(pairs) : PairKey(pairs[i]) = key}

\* C15: buildJsonUrl returns a json-command URL whose query holds one data
\* parameter that percent-decodes and parses back to items, the auth-token
\* parameter exactly when a credential is given, reveal=true exactly when
\* reveal is true, and no other parameter.
C15_JsonUrlParameters ==
  (urlCall.fn = "buildJsonUrl" /\ urlText # Null) =>
    LET url == urlText[1]
        pairs == QueryPairs(url)
        data == PairsWithKey(pairs, "data")
        auth == PairsWithKey(pairs, "auth-token")
        rev == PairsWithKey(pairs, "reveal")
    IN /\ SubSeq(url, 1, 4) = CallbackPrefix \o <<"json", "?">>
       /\ \A i \in 1..Len(pairs) : PairKey(pairs[i]) \in {"data", "auth-token", "reveal"}
       /\ Cardinality(data) = 1
       /\ \A i \in data :
            LET text == decodeURIComponent(SubSeq(pairs[i], 3, Len(pairs[i])))
            IN /\ pairs[i][2] = "="
               /\ text = JSONStringify(JArr(urlCall.items))
               /\ JSONParse(text).ok
               /\ JSONParse(text).v = JArr(urlCall.items)
       /\ Cardinality(auth) = IF Truthy(urlCall.authToken) THEN 1 ELSE 0
       /\ \A i \in auth : pairs[i] = AuthPair(urlCall.authToken[1])
       /\ Cardinality(rev) = IF urlCall.reveal = Bool(TRUE) THEN 1 ELSE 0
       /\ \A i \in rev : pairs[i] = <<"reveal", "=", "true">>

C15_Witness ==
  /\ urlCall.fn = "buildJsonUrl"
  /\ urlCall.items = <<UpdateItem, NestedItem>>
  /\ urlCall.authToken = Some(<<"t", "&", "k">>)
  /\ urlCall.reveal = Bool(TRUE)
  /\ urlText # Null
  /\ Len(QueryPairs(urlText[1])) = 3
  /\ QueryPairs(urlText[1])[2] = <<"auth-token", "=", "t", "%26", "k">>
  /\ QueryPairs(urlText[1])[3] = <<"reveal", "=", "true">>

ResultIds == {dbResult.todos[i].uuid : i \in 1..Len(dbResult.todos)}

\* the rows the adapter holds
Tasks == IF db = Null THEN {} ELSE Range(db[1].TMTask)

\* the list table, on a stored row, for current day D
InList(list, t, D) ==
  CASE list = <<"inbox">> -> t.status = 0 /\ t.start = Some(0) /\ t.project = Null
    [] list = <<"today">> ->
         t.status = 0 /\ (t.todayIndex > 0 \/ (t.startDate # Null /\ t.startDate[1] <= D))
    [] list = <<"anytime">> ->
         t.status = 0 /\ t.start = Some(1) /\ (t.startDate = Null \/ t.startDate[1] <= D)
    [] list = <<"someday">> -> t.status = 0 /\ t.start = Some(2)
    [] list = <<"upcoming">> ->
         t.status = 0 /\ t.start = Some(1) /\ t.startDate # Null /\ t.startDate[1] > D
    [] list = <<"logbook">> -> t.status = 3
    [] list = <<"trash">> -> t.trashed = 1

HasStatus(status, t) ==
  \/ status = <<"open">> /\ t.status = 0
  \/ status = <<"completed">> /\ t.status = 3
  \/ status = <<"canceled">> /\ t.status = 2

\* a queryTodos({list, status}) call has returned
ListCall ==
  /\ dbCall.fn = "queryTodos" /\ dbResult.kind = "todos"
  /\ dbCall.filters.list # Null
  /\ dbCall.filters = [NoFilters EXCEPT !.list = dbCall.filters.list,
                                        !.status = dbCall.filters.status]

\* C16 as stated: queryTodos({list: L, status: S}) returns exactly the
\* to-do rows that satisfy L's predicate of the list table and, when S is
\* given, have S's status code.
C16_ListsAsStated ==
  ListCall =>
    /\ Len(dbResult.todos) = Cardinality(ResultIds)
    /\ ResultIds =
         {t.uuid : t \in {t \in Tasks :
            /\ t.type = 0
            /\ InList(dbCall.filters.list[1], t, todayDays)
            /\ dbCall.filters.status # Null => HasStatus(dbCall.filters.status[1], t)}}

\* C16: queryTodos({list: L, status: S}) returns exactly the to-do rows that
\* are not trashed (for L = trash: that are trashed), satisfy L's predicate of
\* the list table and, when S is given, have S's status code; a to-do with
\* todayIndex > 0 and a future start date is in the today list.
C16_ListsOfUntrashed ==
  ListCall =>
    /\ Len(dbResult.todos) = Cardinality(ResultIds)
    /\ ResultIds =
         {t.uuid : t \in {t \in Tasks :
            /\ t.type = 0
            /\ dbCall.filters.list # Some(<<"trash">>) => t.trashed = 0
            /\ InList(dbCall.filters.list[1], t, todayDays)
            /\ dbCall.filters.status # Null => HasStatus(dbCall.filters.status[1], t)}}

C16_Witness ==
  /\ ListCall
  /\ dbCall.filters.list = Some(<<"today">>)
  /\ dbCall.filters.status = Some(<<"open">>)
  /\ <<"t1">> \in ResultIds
  /\ \E t \in Tasks :
       /\ t.uuid = <<"t1">> /\ t.todayIndex > 0
       /\ t.startDate # Null /\ t.startDate[1] > todayDays

\* the stored row of a returned item
Stored(uuid) == CHOOSE t \in Tasks : t.uuid = uuid

\* C17: whatever the filters, queryTodos with list = "trash" returns only
\* trashed to-dos, and with any other list or none it returns no trashed
\* to-do.
C17_TrashedOnlyInTrash ==
  (dbCall.fn = "queryTodos" /\ dbResult.kind = "todos") =>
    \A id \in ResultIds :
      /\ \E t \in Tasks : t.uuid = id
      /\ Stored(id).trashed = IF dbCall.filters.list = Some(<<"trash">>) THEN 1 ELSE 0

C17_Witness ==
  /\ dbCall.fn = "queryTodos" /\ dbResult.kind = "todos"
  /\ dbCall.filters.list = Some(<<"trash">>)
  /\ dbCall.filters.search = Some(<<"m">>)
  /\ ResultIds = {<<"t1">>}
  /\ Stored(<<"t1">>).trashed = 1

RowsWith(uuid, type) == {t \in Tasks : t.uuid = uuid /\ t.type = type}

\* C18: queryTodos and queryTodoById return no project or heading row;
\* queryTodoById(id) returns null, raising nothing, when no row has the id
\* or the row is a project or heading; queryProjectById(id) returns null when
\* no row has the id or the row is not a project.
C18_TypeDiscriminant ==
  /\ dbResult.kind \in {"todos", "todo"} =>
       \A id \in ResultIds : RowsWith(id, 0) # {} /\ Stored(id).type = 0
  /\ (dbCall.fn = "queryTodoById" /\ dbResult.kind # "none") =>
       IF RowsWith(dbCall.uuid, 0) = {}
       THEN dbResult.kind = "null" /\ dbResult.todos = <<>>
       ELSE dbResult.kind = "todo" /\ ResultIds = {dbCall.uuid}
  /\ (dbCall.fn = "queryProjectById" /\ dbResult.kind # "none") =>
       IF RowsWith(dbCall.uuid, 1) = {}
       THEN dbResult.kind = "null" /\ dbResult.project = <<>>
       ELSE /\ dbResult.kind = "project"
            /\ dbResult.project[1].uuid = dbCall.uuid
            /\ \A i \in 1..Len(dbResult.project[1].todos) :
                 RowsWith(dbResult.project[1].todos[i].uuid, 0) # {}

C18_Witness ==
  /\ dbCall.fn = "queryTodoById"
  /\ dbCall.uuid = <<"t1">>
  /\ dbResult.kind = "null"
  /\ RowsWith(<<"t1">>, 2) # {}

\* the area a to-do row belongs to: its own, else its parent project's
EffectiveArea(t) ==
  IF t.area # Null THEN t.area
  ELSE IF \E p \in Tasks : Some(p.uuid) = t.project
       THEN (CHOOSE p \in Tasks : Some(p.uuid) = t.project).area
       ELSE Null

AreaTitle(area) ==
  IF area # Null /\ \E a \in Range(db[1].TMArea) : a.uuid = area[1]
  THEN Some((CHOOSE a \in Range(db[1].TMArea) : a.uuid = area[1]).title)
  ELSE Null

\* C19: every to-do returned by queryTodos or queryTodoById reports the id
\* and title of its own area when it has one, and otherwise those of its
\* parent project's area.
C19_EffectiveAreaReported ==
  dbResult.kind \in {"todos", "todo"} =>
    \A i \in 1..Len(dbResult.todos) :
      LET todo == dbResult.todos[i]
          area == EffectiveArea(Stored(todo.uuid))
      IN /\ todo.areaId = area
         /\ todo.areaTitle = AreaTitle(area)

\* C20: with the tag filter given, queryTodos returns only to-dos that carry
\* the tag of that name.
C20_TagFilterApplies ==
  (dbCall.fn = "queryTodos" /\ dbResult.kind = "todos" /\ dbCall.filters.tag # Null) =>
    \A i \in 1..Len(dbResult.todos) :
      /\ dbCall.filters.tag[1] \in Range(dbResult.todos[i].tags)
      /\ \E tt \in Range(db[1].TMTaskTag) :
           /\ tt.tasks = dbResult.todos[i].uuid
           /\ \E g \in Range(db[1].TMTag) :
                g.uuid = tt.tags /\ g.title = dbCall.filters.tag[1]

\* the stored children of a project that count: to-do rows, not trashed
CountedChildren(uuid) ==
  {t \in Tasks : t.project = Some(uuid) /\ t.type = 0 /\ t.trashed = 0}

\* C21: for every project returned by queryProjects, totalTodoCount is the
\* number of non-trashed to-do rows whose project it is and openTodoCount the
\* number of those with the open status code, so openTodoCount <=
\* totalTodoCount; trashed children and headings are not counted.
C21_ProjectCounts ==
  (dbCall.fn = "queryProjects" /\ dbResult.kind = "projects") =>
    \A i \in 1..Len(dbResult.projects) :
      LET project == dbResult.projects[i]
      IN /\ project.totalTodoCount = Cardinality(CountedChildren(project.uuid))
         /\ project.openTodoCount =
              Cardinality({t \in CountedChildren(project.uuid) : t.status = 0})
         /\ project.openTodoCount <= project.totalTodoCount

\* three counted children of which one is completed, next to a heading
C21_Witness ==
  /\ dbCall.fn = "queryProjects" /\ dbResult.kind = "projects"
  /\ \E i \in 1..Len(dbResult.projects) :
       /\ dbResult.projects[i].uuid = <<"p1">>
       /\ dbResult.projects[i].openTodoCount = 2
       /\ dbResult.projects[i].totalTodoCount = 3
  /\ \E t \in Tasks : t.project = Some(<<"p1">>) /\ t.type = 2

\* the stored rows of the returned items, in the order returned
ReturnedRows ==
  IF dbResult.kind = "projects"
  THEN [i \in 1..Len(dbResult.projects) |-> Stored(dbResult.projects[i].uuid)]
  ELSE [i \in 1..Len(dbResult.todos) |-> Stored(dbResult.todos[i].uuid)]

\* row a may stand directly before row b: today position ascending, then
\* creation time descending
InDefaultOrder(a, b) ==
  \/ a.todayIndex < b.todayIndex
  \/ a.todayIndex = b.todayIndex /\ a.creationDate >= b.creationDate

\* completion time descending, a row without one last
InLogbookOrder(a, b) ==
  \/ b.stopDate = Null
  \/ a.stopDate # Null /\ a.stopDate[1] >= b.stopDate[1]

\* C23: every queryTodos result is sorted by today position ascending, ties
\* by creation time descending, except under list = "logbook", where it is
\* sorted by completion time descending; every queryProjects result is
\* sorted by today position ascending, then creation time descending.
C23_ResultOrder ==
  ((dbCall.fn = "queryTodos" /\ dbResult.kind = "todos")
     \/ (dbCall.fn = "queryProjects" /\ dbResult.kind = "projects")) =>
    \A i \in 1..(Len(ReturnedRows) - 1) :
      IF dbCall.fn = "queryTodos" /\ dbCall.filters.list = Some(<<"logbook">>)
      THEN InLogbookOrder(ReturnedRows[i], ReturnedRows[i + 1])
      ELSE InDefaultOrder(ReturnedRows[i], ReturnedRows[i + 1])

\* three to-dos returned: a tie in today position settled by creation time,
\* and a step in today position against creation time
C23_Witness ==
  /\ dbCall.fn = "queryTodos" /\ dbResult.kind = "todos"
  /\ dbCall.filters.list # Some(<<"logbook">>)
  /\ Len(ReturnedRows) = 3
  /\ ReturnedRows[1].todayIndex = ReturnedRows[2].todayIndex
  /\ ReturnedRows[1].creationDate > ReturnedRows[2].creationDate
  /\ ReturnedRows[2].todayIndex < ReturnedRows[3].todayIndex
  /\ ReturnedRows[2].creationDate < ReturnedRows[3].creationDate

\* the limit of the call: the one given, else 50
LimitOfCall ==
  IF dbCall.filters.limit # Null THEN dbCall.filters.limit[1] ELSE DefaultLimit

\* C24: for every filter set and every limit the read tools accept,
\* queryTodos and queryProjects return at most `limit` items, 50 when no
\* limit is given.
C24_AtMostLimit ==
  /\ (dbCall.fn = "queryTodos" /\ dbResult.kind = "todos") =>
       Len(dbResult.todos) <= LimitOfCall
  /\ (dbCall.fn = "queryProjects" /\ dbResult.kind = "projects") =>
       Len(dbResult.projects) <= LimitOfCall

\* the ids of the returned to-dos, in the order returned
ReturnedIds == [i \in 1..Len(dbResult.todos) |-> dbResult.todos[i].uuid]

\* C25: a queryTodos call whose row fetch returns n >= 1 rows executes three
\* statements whatever n is: the row fetch, one tag query and one checklist
\* query, each bound to all n returned ids; when the row fetch returns no
\* row, only the row fetch is executed, and no query with an empty id list
\* is ever executed.
C25_TwoBatchQueries ==
  (dbCall.fn = "queryTodos" /\ dbResult.kind = "todos") =>
    /\ dbResult.statements[1] = Statement("todos", <<>>)
    /\ IF Len(dbResult.todos) >= 1
       THEN dbResult.statements =
              <<Statement("todos", <<>>), Statement("tags", ReturnedIds),
                Statement("checklists", ReturnedIds)>>
       ELSE Len(dbResult.statements) = 1
    /\ \A i \in 2..Len(dbResult.statements) : dbResult.statements[i].ids # <<>>

C25_Witness ==
  /\ dbCall.fn = "queryTodos" /\ dbResult.kind = "todos"
  /\ Len(dbResult.todos) = 3
  /\ Len(dbResult.statements) = 3
  /\ Len(dbResult.statements[3].ids) = 3

\* C27: queryTodos({areaId: X}) returns exactly the non-trashed to-dos whose
\* effective area, the own area if set and otherwise the parent project's,
\* is X; a to-do with an own area other than X is not returned, also when
\* its parent project's area is X.
C27_AreaFilterIsEffectiveArea ==
  (/\ dbCall.fn = "queryTodos" /\ dbResult.kind = "todos"
   /\ dbCall.filters.areaId # Null
   /\ dbCall.filters = [NoFilters EXCEPT !.areaId = dbCall.filters.areaId]) =>
    ResultIds =
      {t.uuid : t \in {t \in Tasks :
         /\ t.type = 0
         /\ t.trashed = 0
         /\ EffectiveArea(t) = dbCall.filters.areaId}}

\* the status a stored code is rendered with
RenderedStatus(code) ==
  IF code = 3 THEN <<"completed">> ELSE IF code = 2 THEN <<"canceled">> ELSE <<"open">>

C29_ChildNamesItsProject ==
  (dbCall.fn = "queryProjectById" /\ dbResult.kind = "project") =>
    \A i \in 1..Len(dbResult.project[1].todos) :
      LET child == dbResult.project[1].todos[i]
          alone == queryTodoById(db[1], child.uuid)
      IN /\ child.projectId = Some(dbCall.uuid)
         /\ child.projectTitle = Some(dbResult.project[1].title)
         /\ alone # Null
         /\ child.projectId = alone[1].projectId
         /\ child.projectTitle = alone[1].projectTitle

C26_TemporaryFilesRemoved == TmpFile \notin tmpdir /\ TmpDir \notin tmpdir

\* the snapshot tool left a file behind and the raw read threw
C26_Witness ==
  /\ fileRead = FileRead("fails, file left", "throws", FALSE)
  /\ dbResult.kind = "error"
  /\ tmpdir = {}

\* C30: no read-tool call reaches createAdapter while the engine is
\* uninitialized.
C30_EngineReadyBeforeAdapter ==
  dbResult.error # "TypeError: SQL is undefined"

====
